---------------------------- MODULE Spec2Model ----------------------------
(***************************************************************************)
(* talk-essence: the /api/transcribe route (src/unnamed/part_001).         *)
(*                                                                         *)
(* POST validates the request, creates the job's transient directory and   *)
(* drives resolve -> download -> segment/transcribe -> summarize, writing  *)
(* progress events into a ReadableStream.  Every `await` of the handler is *)
(* a suspension point, so the handler is modelled as one action per        *)
(* awaited operation; the timer callback of the heartbeat and the caller's *)
(* cancellation of the stream are actions of their own.                    *)
(***************************************************************************)
EXTENDS Integers, Sequences, FiniteSets, TLC

(***************************************************************************)
(* Bounds of the model.                                                    *)
(***************************************************************************)
MaxJobs == 2          \* requests that may be in flight together
MaxSegments == 2      \* longest probed audio, in CHUNK_SIZE windows
MaxHeartbeats == 1    \* timer ticks modelled per summarization

(***************************************************************************)
(* Program constants.                                                      *)
(***************************************************************************)
CHUNK_SIZE == 180            \* seconds per audio segment
CHUNK_THRESHOLD == 15000     \* transcript length above which it is chunked
MaxCharsPerChunk == 8000     \* per-chunk limit passed by summarizeTranscript
MaxRetries == 3              \* transcribeSingleFile(.., maxRetries = 3)
ProgressCap == 98            \* Math.min(progress + .., 98)

Jobs == 1 .. MaxJobs

NoDir == 0                   \* let tempDir = ''
NoProgress == -1             \* an event without a progress field

(***************************************************************************)
(* Events written by send(): `data: ${JSON.stringify(data)} \n\n`.         *)
(***************************************************************************)
Event(stage, progress, message, error, data) ==
    [stage |-> stage, progress |-> progress, message |-> message,
     error |-> error, data |-> data]

\* message and error are sequences of text parts, <<>> when the field is absent
StageEvent(stage, progress) == Event(stage, progress, <<>>, <<>>, <<>>)

NoticeEvent(message) == Event("summarizing", NoProgress, message, <<>>, <<>>)

ErrorEvent(errorMessage) == Event("error", NoProgress, <<>>, errorMessage, <<>>)

DoneEvent(payload) == Event("done", 100, <<>>, <<>>, <<payload>>)

\* An awaited operation: its name, the index of the segment or chunk it is
\* for (-1: none), the model asked ("": none) and how it ended ("pending"
\* until it does).
Call(op, k, model) == [op |-> op, k |-> k, model |-> model, result |-> "pending"]

\* the job with one more operation awaited
Calling(r, op, k, model) == [r EXCEPT !.calls = Append(@, Call(op, k, model))]

\* the job with the operation it awaits ended
Returned(r, result) == [r EXCEPT !.calls[Len(r.calls)].result = result]


(***************************************************************************)
(* Text.  A string is a sequence of runs [ch, n] (n copies of ch), so that *)
(* the 15000 / 8000 character limits of the source keep their values.      *)
(***************************************************************************)
Run(ch, n) == [ch |-> ch, n |-> n]

NL == Run("\n", 1)

RECURSIVE StrLen(_)
StrLen(s) ==
    IF s = <<>> THEN 0
    ELSE IF Len(s) = 1 THEN s[1].n
    ELSE StrLen(SubSeq(s, 1, Len(s) \div 2))
           + StrLen(SubSeq(s, Len(s) \div 2 + 1, Len(s)))

\* /[\u3002\uff01\uff1f\n]/ : the sentence-ending characters of
\* splitTranscriptIntoChunks; ".", "!", "?" stand for the full-width marks
IsDelimiter(ch) == ch \in {".", "!", "?", "\n"}

\* the characters String.prototype.trim() removes
IsWhitespace(ch) == ch \in {" ", "\n"}

(***************************************************************************)
(* Errors.  message is a sequence of parts (a template literal joins       *)
(* parts); status / code / cause are the fields the handlers read.         *)
(***************************************************************************)
Err(message, status, code, cause) ==
    [message |-> message, status |-> status, code |-> code, cause |-> cause]

PlainError(text) == Err(<<text>>, 0, "", "")

ResolveTimeoutError == PlainError("resolver: connection timed out")
ResolveFailedError == PlainError("resolver: could not parse the link")
DownloadTimeoutError == PlainError("download: timed out")
DownloadFailedError == PlainError("download: failed")
MkdirError == Err(<<"EACCES: permission denied, mkdir">>, 0, "EACCES", "")
WriteError == Err(<<"ENOSPC: no space left on device, write">>, 0, "ENOSPC", "")
RenameError == Err(<<"ENOENT: no such file or directory, rename">>, 0, "ENOENT", "")
ProbeError == PlainError("ffprobe exited with code 1")
SplitError == PlainError("ffmpeg exited with code 1")
ReaddirError == Err(<<"ENOENT: no such file or directory, scandir">>, 0, "ENOENT", "")
\* controller.enqueue() on a stream that is no longer readable
EnqueueError == PlainError("Invalid state: Controller is already closed")

\* what the speech-to-text / text-generation provider answers with
AuthError == Err(<<"401 invalid_api_key">>, 401, "invalid_api_key", "")
RateLimitError == Err(<<"429 Rate limit reached. Please try again in 7m12s.">>,
                      429, "rate_limit_exceeded", "")
BadRequestError == Err(<<"400 unsupported file format">>, 400, "invalid_request_error", "")
NetworkError == Err(<<"Connection error.">>, 0, "", "ECONNRESET")
\* a rate limit told by the error code alone, the status not being 429
RateLimitCodeError == Err(<<"429 Rate limit reached. Please try again in 7m12s.">>,
                          0, "rate_limit_exceeded", "")

\* a rate limit whose retry-after hint holds the digits 401
RateLimitLateError == Err(<<"429 Rate limit reached. Please try again in 4m1.401s.">>,
                          429, "rate_limit_exceeded", "")

\* String.prototype.includes on the parts of a message
PartsWith401 ==
    {"401 invalid_api_key",
     "429 Rate limit reached. Please try again in 4m1.401s.",
     "4m1.401s"}
PartsWithInvalidKey == {"401 invalid_api_key"}
Includes(message, parts) == \E k \in 1 .. Len(message) : message[k] \in parts

InvalidKeyMessage == <<"API Key invalid or expired (401 Unauthorized)">>

\* POST's catch block, lines 531-540
ErrorMessage(e) ==
    IF \/ Includes(e.message, PartsWith401)
       \/ Includes(e.message, PartsWithInvalidKey)
       \/ e.status = 401
    THEN InvalidKeyMessage
    ELSE e.message

RECURSIVE MessageLen(_)
MessageLen(m) == IF m = <<>> THEN 0 ELSE (IF Head(m) = "" THEN 0 ELSE 1) + MessageLen(Tail(m))

(***************************************************************************)
(* Requests.  url is what `const { url } = await request.json()` yields.   *)
(***************************************************************************)
Request(body, key, url) == [body |-> body, key |-> key, url |-> url]

NoRequest == Request("none", FALSE, "none")

\* key: the x-api-key header or process.env.GROQ_API_KEY is set
\* url: "undefined", "number" (not a string), "foreign" (a string without
\*      'xiaoyuzhou'), "episode" (a xiaoyuzhou episode page),
\*      "lookalike" (another site's URL that contains 'xiaoyuzhou')
Requests ==
    { Request("malformed", TRUE, "undefined") }
      \cup { Request("json", k, u) :
               k \in BOOLEAN,
               u \in {"undefined", "number", "foreign", "episode", "lookalike"} }

\* url?.includes('xiaoyuzhou'): "throws" for a value without includes()
UrlIncludes(url) ==
    CASE url = "undefined" -> "false"
      [] url = "number" -> "throws"
      [] url = "foreign" -> "false"
      [] OTHER -> "true"

\* lines 463-472 and 559-568: the response of a request that starts no job,
\* 0 when the request passes validation
\* validation without the test of line 472
ValidateKeyOnly(r) ==
    IF r.body = "malformed" THEN 500
    ELSE IF ~r.key THEN 401
    ELSE 0

Validate(r) ==
    IF r.body = "malformed" THEN 500
    ELSE IF ~r.key THEN 401
    ELSE IF UrlIncludes(r.url) = "throws" THEN 500
    ELSE IF UrlIncludes(r.url) = "false" THEN 400
    ELSE 0

(***************************************************************************)
(* Files of a transient directory.                                         *)
(***************************************************************************)
FileName(base, idx, ext) == [base |-> base, idx |-> idx, ext |-> ext]

\* path.join(tempDir, 'download_audio_temp')
InitialTempFile == FileName("download_audio_temp", -1, "")

\* path.join(tempDir, `input${extension}`)
InputFile(extension) == FileName("input", -1, extension)

\* the files ffmpeg writes for the pattern `chunk%03d${originalExt}`
ChunkFile(k, originalExt) == FileName("chunk", k, originalExt)

At(dir, name) == [dir |-> dir, name |-> name]

(***************************************************************************)
(* downloadAudioToStream, lines 63-70: the extension from the URL path.    *)
(* An audio URL is modelled by the suffix of its path ("" for any other    *)
(* suffix) or "unparsable" when new URL(url) throws.                       *)
(***************************************************************************)
AudioUrls == {".mp3", ".m4a", ".mp4", ".wav", "", "unparsable"}

\* the extension taken for .mp3 whatever the URL
DetectExtensionDefault(url) == IF url = "unparsable" THEN ".mp3" ELSE ".mp3"

DetectExtension(url) ==
    IF url = "unparsable" THEN ".mp3"
    ELSE IF url = ".wav" THEN ".wav"
    ELSE IF url = ".mp4" THEN ".mp4"
    ELSE IF url = ".m4a" THEN ".m4a"
    ELSE ".mp3"

(***************************************************************************)
(* State.                                                                  *)
(*   job[j]    the locals of request j's POST invocation and of the        *)
(*             functions it awaits, its stream, and the record of what it  *)
(*             did (failure, mkdirs, touched, calls)                       *)
(*   dirs      the transient directories that exist under os.tmpdir()      *)
(*   files     the files in them                                           *)
(*   nextUuid  the next value uuidv4() returns (values do not repeat)      *)
(*   uncaught  exceptions thrown out of a timer callback                   *)
(*   crashed   the process ended on an uncaught exception                  *)
(***************************************************************************)
VARIABLES job, dirs, files, nextUuid, uncaught, crashed

vars == <<job, dirs, files, nextUuid, uncaught, crashed>>

\* a key typed into the dialog: what it starts with, and the rest of it
Key(prefix, rest) == [prefix |-> prefix, rest |-> rest]

NoKey == Key("", "")

\* the page of the browser that makes the request: the item groq_api_key of
\* local storage, the state apiKey of page.tsx, the dialog's error, the
\* state loading, and the requests fetch() has sent; of ApiKeyModal: whether
\* it is mounted, its state isOpen, whether its listener for
\* open-api-key-modal is registered, whether its entrance timer is pending,
\* and whether the last thing that happened to it is a dispatch of the event;
\* of handleSubmit of page.tsx: the states stage, progress, message, result
\* and error (errorText), how many of the server's events the reader has
\* read, how many of them the transport has cut across two reads, and the
\* events the loop of lines 82-107 has taken
NewPage ==
    [localStorage |-> NoKey, apiKey |-> NoKey, error |-> FALSE,
     loading |-> FALSE, sent |-> <<>>,
     mounted |-> FALSE, isOpen |-> FALSE, listening |-> FALSE,
     timer |-> FALSE, dispatched |-> FALSE,
     stage |-> "idle", progress |-> 0, message |-> <<>>, result |-> <<>>,
     errorText |-> <<>>, read |-> 0, cuts |-> 0, applied |-> <<>>]

NewJob ==
    [page |-> NewPage, pc |-> "idle", req |-> NoRequest, response |-> 0, tempDir |-> NoDir,
     streamState |-> "none", events |-> <<>>, rejected |-> FALSE,
     audioUrl |-> "", extension |-> "", chunks |-> <<>>, i |-> 0,
     duration |-> 0, attempt |-> 0, waits |-> <<>>, fullTranscript |-> <<>>,
     keepAlive |-> FALSE, progress |-> 0, ticks |-> 0,
     phase |-> "", model |-> "", textChunks |-> <<>>, k |-> 0,
     chunkSummaries |-> <<>>, mergedContent |-> <<>>, summary |-> <<>>,
     failure |-> "none", mkdirs |-> 0, touched |-> {}, calls |-> <<>>]

Init ==
    /\ job = [j \in Jobs |-> NewJob]
    /\ dirs = {}
    /\ files = {}
    /\ nextUuid = 1
    /\ uncaught = 0
    /\ crashed = FALSE

\* a name that is the same for every request of the process
SessionIdPerProcess == NoDir + 1

\* line 481: const sessionId = uuidv4()
SessionId == nextUuid

\* line 461: `let tempDir = ''` is a local of each POST invocation
TempDir(j) == job[j].tempDir

\* the record of job j with its directory noted as used
Touch(r, dir) == [r EXCEPT !.touched = @ \cup {dir}]

(***************************************************************************)
(* POST, lines 528-554: the catch block and the start of finally.  r is    *)
(* the job at the throw.  send() of the error event throws in turn when    *)
(* the stream is not readable; finally still runs, and the exception then  *)
(* rejects the promise of start(), which the stream takes (rejected).      *)
(***************************************************************************)
\* the removal at the end of the catch block instead of in finally: an
\* exception of the send() in the catch block passes it by
CaughtWithoutFinally(r, e, stage) ==
    IF r.streamState = "readable"
    THEN [Calling(r, "rm", -1, "") EXCEPT
            !.events = Append(@, ErrorEvent(ErrorMessage(e))),
            !.streamState = "closed",
            !.failure = stage,
            !.pc = "cleanup"]
    ELSE [r EXCEPT !.rejected = TRUE, !.failure = stage, !.pc = "finished"]

Caught(r, e, stage) ==
    IF r.streamState = "readable"
    THEN [Calling(r, "rm", -1, "") EXCEPT
            !.events = Append(@, ErrorEvent(ErrorMessage(e))),
            !.streamState = "closed",
            !.failure = stage,
            !.pc = "cleanup"]
    ELSE [Calling(r, "rm", -1, "") EXCEPT
            !.rejected = TRUE,
            !.failure = stage,
            !.pc = "cleanup"]

\* line 477: send() enqueues, or throws when the stream is not readable.
\* r is the job at the send, evs the events sent in a row, next the job
\* after them.
Sent(r, evs, next) ==
    IF r.streamState = "readable"
    THEN [next EXCEPT !.events = r.events \o evs]
    ELSE Caught(r, EnqueueError, "emit")

Set(j, r) == job' = [job EXCEPT ![j] = r]

(***************************************************************************)
(* POST, lines 460-483: validation, then the ReadableStream is built and   *)
(* start() runs up to its first await (mkdir).                             *)
(***************************************************************************)
StartJob(j, requests) ==
    /\ ~crashed
    /\ job[j].pc = "idle"
    /\ \E r \in requests :
         IF Validate(r) # 0
         THEN /\ Set(j, [job[j] EXCEPT !.req = r, !.response = Validate(r),
                                       !.pc = "responded"])
              /\ UNCHANGED nextUuid
         ELSE /\ Set(j, [Calling(job[j], "mkdir", -1, "") EXCEPT
                             !.req = r, !.response = 200,
                             !.streamState = "readable",
                             !.tempDir = SessionId,
                             !.pc = "mkdir"])
              /\ nextUuid' = nextUuid + 1
    /\ UNCHANGED <<dirs, files, uncaught, crashed>>

(***************************************************************************)
(* lines 483-487: mkdir returns; the first parsing event; a 100 ms wait.   *)
(***************************************************************************)
MkdirDone(j, outcomes) ==
    /\ ~crashed
    /\ job[j].pc = "mkdir"
    /\ \E o \in outcomes :
         IF o = "ok"
         THEN LET r == [Touch(Returned(job[j], o), TempDir(j)) EXCEPT
                          !.mkdirs = @ + 1]
              IN  /\ dirs' = dirs \cup {TempDir(j)}
                  /\ Set(j, Sent(r, <<StageEvent("parsing", 1)>>,
                                 [r EXCEPT !.pc = "flush"]))
         ELSE /\ Set(j, Caught(Returned(job[j], o), MkdirError, "mkdir"))
              /\ UNCHANGED dirs
    /\ UNCHANGED <<files, nextUuid, uncaught, crashed>>

(***************************************************************************)
(* lines 488-489: the second parsing event, then the resolver is called.   *)
(***************************************************************************)
FlushDone(j) ==
    /\ ~crashed
    /\ job[j].pc = "flush"
    /\ Set(j, Sent(job[j], <<StageEvent("parsing", 5)>>,
                   [Calling(job[j], "resolve", -1, "") EXCEPT !.pc = "resolve"]))
    /\ UNCHANGED <<dirs, files, nextUuid, uncaught, crashed>>

(***************************************************************************)
(* parseXiaoyuzhouUrl, lines 30-48, and POST lines 489-494.                *)
(***************************************************************************)
ResolveDone(j, outcomes, urls) ==
    /\ ~crashed
    /\ job[j].pc = "resolve"
    /\ \E o \in outcomes, u \in urls :
         LET r == Returned(job[j], o)
         IN  CASE o = "ok" ->
                    Set(j, Sent(r, <<StageEvent("downloading", 10)>>,
                                [Calling(r, "download", -1, "") EXCEPT
                                   !.audioUrl = u, !.pc = "connect"]))
               [] o = "timeout" -> Set(j, Caught(r, ResolveTimeoutError, "resolve"))
               [] OTHER -> Set(j, Caught(r, ResolveFailedError, "resolve"))
    /\ UNCHANGED <<dirs, files, nextUuid, uncaught, crashed>>

(***************************************************************************)
(* downloadAudioToStream, lines 54-77 and 97-103: the connection.          *)
(***************************************************************************)
ConnectDone(j, outcomes) ==
    /\ ~crashed
    /\ job[j].pc = "connect"
    /\ \E o \in outcomes :
         LET r == Returned(job[j], o)
         IN  CASE o = "ok" ->
                    /\ Set(j, [Touch(Calling(r, "transfer", -1, ""), TempDir(j))
                                 EXCEPT !.extension = DetectExtension(r.audioUrl),
                                        !.pc = "transfer"])
                    /\ files' = IF TempDir(j) \in dirs
                                THEN files \cup {At(TempDir(j), InitialTempFile)}
                                ELSE files
               [] o = "timeout" ->
                    /\ Set(j, Caught(r, DownloadTimeoutError, "download"))
                    /\ UNCHANGED files
               [] OTHER ->
                    /\ Set(j, Caught(r, DownloadFailedError, "download"))
                    /\ UNCHANGED files
    /\ UNCHANGED <<dirs, nextUuid, uncaught, crashed>>

(***************************************************************************)
(* downloadAudioToStream, lines 79-95: response.data.pipe(writer).         *)
(*   close         the writer closed without an error: resolve(extension), *)
(*                 and POST goes on to rename (lines 497-498)              *)
(*   writer_error  the writer failed: reject(err), the raw error           *)
(*   source_error  the response stream failed after the connection was     *)
(*                 made: pipe() unpipes and leaves the writer open, so     *)
(*                 neither handler runs and the promise is never settled   *)
(***************************************************************************)
TransferDone(j, outcomes) ==
    /\ ~crashed
    /\ job[j].pc = "transfer"
    /\ \E o \in outcomes :
         CASE o = "close" /\ At(TempDir(j), InitialTempFile) \in files ->
                Set(j, [Calling(Returned(job[j], "ok"), "rename", -1, "") EXCEPT
                          !.pc = "rename"])
           [] o = "source_error" ->
                Set(j, [job[j] EXCEPT !.pc = "stalled", !.failure = "download"])
           [] OTHER ->
                Set(j, Caught(Returned(job[j], "writer_error"), WriteError,
                              "download"))
    /\ UNCHANGED <<dirs, files, nextUuid, uncaught, crashed>>

(***************************************************************************)
(* POST, lines 497-505, and transcribeLargeAudio up to ffprobe (157).      *)
(***************************************************************************)
RenameDone(j, outcomes) ==
    /\ ~crashed
    /\ job[j].pc = "rename"
    /\ \E o \in outcomes :
         IF o = "ok" /\ At(TempDir(j), InitialTempFile) \in files
         THEN LET r == Touch(Returned(job[j], "ok"), TempDir(j))
              IN  /\ files' = (files \ {At(TempDir(j), InitialTempFile)})
                                \cup {At(TempDir(j), InputFile(r.extension))}
                  /\ Set(j, Sent(r, <<StageEvent("downloading", 25),
                                      StageEvent("transcribing", 30)>>,
                                 [Calling(r, "probe", -1, "") EXCEPT
                                    !.pc = "probe"]))
         ELSE /\ Set(j, Caught(Returned(job[j], "fail"), RenameError, "rename"))
              /\ UNCHANGED files
    /\ UNCHANGED <<dirs, nextUuid, uncaught, crashed>>

(***************************************************************************)
(* The names readdir returns are sorted by Array.prototype.sort(), i.e. as *)
(* strings.  A chunk file's name is compared by the characters after       *)
(* "chunk": the digits %03d printed, then the extension.                   *)
(***************************************************************************)
RECURSIVE Digits(_)
Digits(n) == IF n < 10 THEN <<n>> ELSE Append(Digits(n \div 10), n % 10)

RECURSIVE PadLeft(_, _)
PadLeft(d, width) == IF Len(d) >= width THEN d ELSE PadLeft(<<0>> \o d, width)

\* character codes: '0' is 48, '.' is 46
NameCodes(f) ==
    [x \in 1 .. Len(PadLeft(Digits(f.idx), 3)) |->
        48 + PadLeft(Digits(f.idx), 3)[x]] \o <<46>>

RECURSIVE LexLess(_, _)
LexLess(a, b) ==
    IF a = <<>> THEN b # <<>>
    ELSE IF b = <<>> THEN FALSE
    ELSE IF Head(a) # Head(b) THEN Head(a) < Head(b)
    ELSE LexLess(Tail(a), Tail(b))

\* the names of S in increasing order: a name's place is the number of
\* names that are less than it
SortNames(S) ==
    LET keyed == {<<NameCodes(f), f>> : f \in S}
        placed == {<<Cardinality({g \in keyed : LexLess(g[1], p[1])}), p[2]>> :
                     p \in keyed}
    IN  [n \in 1 .. Cardinality(S) |-> (CHOOSE p \in placed : p[1] = n - 1)[2]]

\* lines 193-197: files.filter(f => f.startsWith('chunk')).sort()
ListChunks(dir) ==
    SortNames({f.name : f \in {g \in files : g.dir = dir /\ g.name.base = "chunk"}})

\* the number of files the segment muxer writes for a duration
SegmentCount(duration) == (duration + CHUNK_SIZE - 1) \div CHUNK_SIZE

\* lines 209-213 and 223: the progress reported before and after chunk i
StartP(i, totalChunks) == 30 + ((i * 55) \div totalChunks)

\* a completion report on the scale of the whole bar, not of the stage's band
EndPOfWholeBar(i, totalChunks) == ((i + 1) * 100) \div totalChunks

EndP(i, totalChunks) == 30 + (((i + 1) * 50) \div totalChunks)

(***************************************************************************)
(* summarizeTranscript's catch, lines 442-455: the interval is cleared and *)
(* the error is replaced before POST's catch sees it.                      *)
(***************************************************************************)
RetryAfter(e, otherwise) ==
    IF e.message = RateLimitError.message THEN "7m12s"
    ELSE IF e.message = RateLimitLateError.message THEN "4m1.401s"
    ELSE otherwise

\* the wrapping that keeps nothing of the provider's message
SummarizeErrorOpaque(e) == Err(<<"summarize failed">>, 0, "", "")

SummarizeError(e) ==
    IF e.status = 429
    THEN Err(<<"quota exhausted, retry after ", RetryAfter(e, "a while")>>, 0, "", "")
    ELSE Err(<<"summarize failed: ">> \o (IF MessageLen(e.message) = 0
                                             THEN <<"unknown error">>
                                             ELSE e.message), 0, "", "")

\* line 526: the data of the done event
Payload(r, summary) ==
    [title |-> "title", transcript |-> r.fullTranscript, audioUrl |-> r.audioUrl,
     type |-> "universal", summary |-> summary]

\* the catch answering with a default result instead of throwing
SumCaughtSwallowed(r, e, stage) ==
    IF r.streamState = "readable"
    THEN [Calling(r, "rm", -1, "") EXCEPT
            !.keepAlive = FALSE,
            !.summary = <<"generation failed">>,
            !.events = Append(@, DoneEvent(Payload(r, <<"generation failed">>))),
            !.streamState = "closed",
            !.pc = "cleanup"]
    ELSE Caught([r EXCEPT !.keepAlive = FALSE], EnqueueError, "emit")

\* the catch block of summarizeTranscript without its clearInterval
SumCaughtKeepsTimer(r, e, stage) == Caught(r, SummarizeError(e), stage)

SumCaught(r, e, stage) ==
    Caught([r EXCEPT !.keepAlive = FALSE], SummarizeError(e), stage)

\* send() called inside summarizeTranscript's try block
SumSent(r, evs, next) ==
    IF r.streamState = "readable"
    THEN [next EXCEPT !.events = r.events \o evs]
    ELSE SumCaught(r, EnqueueError, "emit")

(***************************************************************************)
(* splitTranscriptIntoChunks, lines 235-264.                               *)
(***************************************************************************)
\* transcript.split(/([...]+)/): text, delimiters, text, ..., text
RECURSIVE SplitOn(_, _, _)
SplitOn(s, pieces, inDelimiters) ==
    IF s = <<>>
    THEN IF inDelimiters THEN Append(pieces, <<>>) ELSE pieces
    ELSE IF IsDelimiter(Head(s).ch) = inDelimiters
         THEN SplitOn(Tail(s),
                      [pieces EXCEPT ![Len(pieces)] = Append(@, Head(s))],
                      inDelimiters)
         ELSE SplitOn(Tail(s), Append(pieces, <<Head(s)>>), ~inDelimiters)

\* the transcript cut wherever the character changes, at white space too
SentencesByRun(transcript) == [x \in 1 .. Len(transcript) |-> <<transcript[x]>>]

Sentences(transcript) == SplitOn(transcript, << <<>> >>, FALSE)

RECURSIVE TrimStart(_)
TrimStart(s) ==
    IF s # <<>> /\ IsWhitespace(Head(s).ch) THEN TrimStart(Tail(s)) ELSE s

RECURSIVE TrimEnd(_)
TrimEnd(s) ==
    IF s # <<>> /\ IsWhitespace(s[Len(s)].ch)
    THEN TrimEnd(SubSeq(s, 1, Len(s) - 1))
    ELSE s

Trim(s) == TrimEnd(TrimStart(s))

\* the loop testing the length of the current chunk alone, not its length
\* with the next sentence added
RECURSIVE ChunkLoopGreedy(_, _, _, _, _)
ChunkLoopGreedy(sentences, i, chunks, currentChunk, maxCharsPerChunk) ==
    IF i > Len(sentences)
    THEN IF Trim(currentChunk) # <<>>
         THEN Append(chunks, Trim(currentChunk))
         ELSE chunks
    ELSE IF StrLen(currentChunk) > maxCharsPerChunk
         THEN ChunkLoopGreedy(sentences, i + 1, Append(chunks, Trim(currentChunk)),
                              sentences[i], maxCharsPerChunk)
         ELSE ChunkLoopGreedy(sentences, i + 1, chunks,
                              currentChunk \o sentences[i], maxCharsPerChunk)

\* the loop starting the next chunk empty, without the sentence that did
\* not fit
RECURSIVE ChunkLoopDropping(_, _, _, _, _)
ChunkLoopDropping(sentences, i, chunks, currentChunk, maxCharsPerChunk) ==
    IF i > Len(sentences)
    THEN IF Trim(currentChunk) # <<>>
         THEN Append(chunks, Trim(currentChunk))
         ELSE chunks
    ELSE IF /\ StrLen(currentChunk) + StrLen(sentences[i]) > maxCharsPerChunk
            /\ StrLen(currentChunk) > 0
         THEN ChunkLoopDropping(sentences, i + 1, Append(chunks, Trim(currentChunk)),
                                <<>>, maxCharsPerChunk)
         ELSE ChunkLoopDropping(sentences, i + 1, chunks,
                                currentChunk \o sentences[i], maxCharsPerChunk)

RECURSIVE ChunkLoop(_, _, _, _, _)
ChunkLoop(sentences, i, chunks, currentChunk, maxCharsPerChunk) ==
    IF i > Len(sentences)
    THEN IF Trim(currentChunk) # <<>>
         THEN Append(chunks, Trim(currentChunk))
         ELSE chunks
    ELSE IF /\ StrLen(currentChunk) + StrLen(sentences[i]) > maxCharsPerChunk
            /\ StrLen(currentChunk) > 0
         THEN ChunkLoop(sentences, i + 1, Append(chunks, Trim(currentChunk)),
                        sentences[i], maxCharsPerChunk)
         ELSE ChunkLoop(sentences, i + 1, chunks,
                        currentChunk \o sentences[i], maxCharsPerChunk)

splitTranscriptIntoChunks(transcript, maxCharsPerChunk) ==
    IF StrLen(transcript) <= maxCharsPerChunk
    THEN <<transcript>>
    ELSE ChunkLoop(Sentences(transcript), 1, <<>>, <<>>, maxCharsPerChunk)

\* line 389: chunkSummaries.join('\n\n---\n\n')
RECURSIVE Join(_, _)
Join(parts, separator) ==
    IF parts = <<>> THEN <<>>
    ELSE IF Len(parts) = 1 THEN parts[1]
    ELSE parts[1] \o <<separator>> \o Join(Tail(parts), separator)

\* the reduce call made as soon as one chunk has its summary
NextChunkCallEarly(r) ==
    IF r.k < 1
    THEN SumSent(r, <<NoticeEvent(<<"analysing part ", ToString(r.k + 1), "/",
                                   ToString(Len(r.textChunks))>>)>>,
                 [Calling(r, "summarize", r.k, "PRIMARY") EXCEPT
                    !.phase = "chunk", !.model = "PRIMARY"])
    ELSE SumSent(r, <<NoticeEvent(<<"merging all parts">>)>>,
                 [Calling(r, "summarize", -1, "PRIMARY") EXCEPT
                    !.phase = "reduce", !.model = "PRIMARY",
                    !.mergedContent = Join(r.chunkSummaries, "\n\n---\n\n")])

(***************************************************************************)
(* summarizeTranscript, lines 355-401: the head of the chunk loop at index *)
(* r.k, and the reduce call after the loop.                                *)
(***************************************************************************)
NextChunkCall(r) ==
    IF r.k < Len(r.textChunks)
    THEN SumSent(r, <<NoticeEvent(<<"analysing part ", ToString(r.k + 1), "/",
                                   ToString(Len(r.textChunks))>>)>>,
                 [Calling(r, "summarize", r.k, "PRIMARY") EXCEPT
                    !.phase = "chunk", !.model = "PRIMARY"])
    ELSE SumSent(r, <<NoticeEvent(<<"merging all parts">>)>>,
                 [Calling(r, "summarize", -1, "PRIMARY") EXCEPT
                    !.phase = "reduce", !.model = "PRIMARY",
                    !.mergedContent = Join(r.chunkSummaries, "\n\n---\n\n")])

(***************************************************************************)
(* POST, lines 516-523, and summarizeTranscript up to its first call: the  *)
(* summarizing event, setInterval, and the dispatch on the length.         *)
(***************************************************************************)
\* the handler going on to summarizeTranscript without the event of line 518
BeginSummarizeSilent(r) ==
    IF r.streamState # "readable"
    THEN Caught(r, EnqueueError, "emit")
    ELSE LET r1 == [r EXCEPT !.progress = 850,
                             !.keepAlive = TRUE,
                             !.pc = "summarize"]
         IN  IF StrLen(r1.fullTranscript) > CHUNK_THRESHOLD
             THEN NextChunkCall([r1 EXCEPT
                                   !.textChunks = splitTranscriptIntoChunks(
                                                    r1.fullTranscript, MaxCharsPerChunk),
                                   !.k = 0])
             ELSE [Calling(r1, "summarize", -1, "PRIMARY") EXCEPT
                     !.phase = "direct", !.model = "PRIMARY"]

\* the handler splitting a transcript of CHUNK_THRESHOLD characters already
BeginSummarizeAtThreshold(r) ==
    IF r.streamState # "readable"
    THEN Caught(r, EnqueueError, "emit")
    ELSE LET r1 == [r EXCEPT !.progress = 850,
                             !.events = Append(@, StageEvent("summarizing", 85)),
                             !.keepAlive = TRUE,
                             !.pc = "summarize"]
         IN  IF StrLen(r1.fullTranscript) >= CHUNK_THRESHOLD
             THEN LET r2 == [r1 EXCEPT
                               !.events = Append(@, NoticeEvent(<<"long text, chunking">>)),
                               !.textChunks = splitTranscriptIntoChunks(
                                                r1.fullTranscript, MaxCharsPerChunk),
                               !.k = 0]
                  IN  NextChunkCall(r2)
             ELSE [Calling(r1, "summarize", -1, "PRIMARY") EXCEPT
                     !.phase = "direct", !.model = "PRIMARY"]

BeginSummarize(r) ==
    IF r.streamState # "readable"
    THEN Caught(r, EnqueueError, "emit")
    ELSE LET r1 == [r EXCEPT !.progress = 850,
                             !.events = Append(@, StageEvent("summarizing", 85)),
                             !.keepAlive = TRUE,
                             !.pc = "summarize"]
         IN  IF StrLen(r1.fullTranscript) > CHUNK_THRESHOLD
             THEN LET r2 == [r1 EXCEPT
                               !.events = Append(@, NoticeEvent(<<"long text, chunking">>)),
                               !.textChunks = splitTranscriptIntoChunks(
                                                r1.fullTranscript, MaxCharsPerChunk),
                               !.k = 0]
                  IN  NextChunkCall(r2)
             ELSE [Calling(r1, "summarize", -1, "PRIMARY") EXCEPT
                     !.phase = "direct", !.model = "PRIMARY"]

(***************************************************************************)
(* transcribeLargeAudio, lines 204-227: the head of the loop at index r.i; *)
(* after the last chunk the transcript is returned to POST.                *)
(***************************************************************************)
\* the next segment is submitted together with the one after it
NextSegmentCallAhead(r) ==
    IF r.i < Len(r.chunks)
    THEN Sent(r, <<StageEvent("transcribing", StartP(r.i, Len(r.chunks)))>>,
              [Touch(Calling(Calling(r, "transcribe", r.i + 1, ""),
                             "transcribe", r.i, ""), r.tempDir) EXCEPT
                 !.attempt = 1, !.pc = "transcribe"])
    ELSE BeginSummarize(r)

NextSegmentCall(r) ==
    IF r.i < Len(r.chunks)
    THEN Sent(r, <<StageEvent("transcribing", StartP(r.i, Len(r.chunks)))>>,
              [Touch(Calling(r, "transcribe", r.i, ""), r.tempDir) EXCEPT
                 !.attempt = 1, !.pc = "transcribe"])
    ELSE BeginSummarize(r)

(***************************************************************************)
(* transcribeLargeAudio, lines 156-191: ffprobe returns.  Line 160         *)
(* resolves with `metadata?.format?.duration || 0`: metadata that holds no *)
(* duration ("no_duration") gives 0, and no error.                         *)
(***************************************************************************)
ProbeDone(j, outcomes, durations) ==
    /\ ~crashed
    /\ job[j].pc = "probe"
    /\ \E o \in outcomes, probed \in durations :
         IF /\ o \in {"ok", "no_duration"}
            /\ At(TempDir(j), InputFile(job[j].extension)) \in files
         THEN LET d == IF o = "ok" THEN probed ELSE 0
                  r == [Touch(Returned(job[j], o), TempDir(j)) EXCEPT
                          !.duration = d]
              IN  IF d <= CHUNK_SIZE
                  THEN Set(j, NextSegmentCall(
                                [r EXCEPT !.chunks = <<InputFile(r.extension)>>,
                                          !.i = 0]))
                  ELSE Set(j, [Calling(r, "split", -1, "") EXCEPT !.pc = "split"])
         ELSE Set(j, Caught(Returned(job[j], "fail"), ProbeError, "probe"))
    /\ UNCHANGED <<dirs, files, nextUuid, uncaught, crashed>>

(***************************************************************************)
(* lines 176-193: ffmpeg has written the segments (or failed).             *)
(***************************************************************************)
SplitDone(j, outcomes) ==
    /\ ~crashed
    /\ job[j].pc = "split"
    /\ \E o \in outcomes :
         IF o = "ok" /\ TempDir(j) \in dirs
         THEN /\ files' = files \cup
                    { At(TempDir(j), ChunkFile(n, job[j].extension)) :
                        n \in 0 .. SegmentCount(job[j].duration) - 1 }
              /\ Set(j, [Touch(Calling(Returned(job[j], "ok"), "readdir", -1, ""),
                                TempDir(j)) EXCEPT !.pc = "readdir"])
         ELSE /\ Set(j, Caught(Returned(job[j], "fail"), SplitError, "split"))
              /\ UNCHANGED files
    /\ UNCHANGED <<dirs, nextUuid, uncaught, crashed>>

(***************************************************************************)
(* lines 193-213: readdir returns, the chunk list is built and the loop    *)
(* starts.                                                                 *)
(***************************************************************************)
ReaddirDone(j) ==
    /\ ~crashed
    /\ job[j].pc = "readdir"
    /\ IF TempDir(j) \in dirs
       THEN Set(j, NextSegmentCall(
                     [Touch(Returned(job[j], "ok"), TempDir(j)) EXCEPT
                        !.chunks = ListChunks(TempDir(j)), !.i = 0]))
       ELSE Set(j, Caught(Returned(job[j], "fail"), ReaddirError, "split"))
    /\ UNCHANGED <<dirs, files, nextUuid, uncaught, crashed>>

(***************************************************************************)
(* transcribeSingleFile, lines 112-141, and the rest of the loop body of   *)
(* transcribeLargeAudio (219-224).                                         *)
(***************************************************************************)
ProviderError(o) ==
    CASE o = "network" -> NetworkError
      [] o = "auth" -> AuthError
      [] o = "rate_limit" -> RateLimitError
      [] o = "rate_limit_code" -> RateLimitCodeError
      [] o = "rate_limit_late" -> RateLimitLateError
      [] OTHER -> BadRequestError

\* every failure taken for a network failure
IsAnyError(e) == e = e

\* lines 123-128
IsNetworkError(e) ==
    \/ e.cause \in {"ECONNRESET", "ETIMEDOUT", "ENOTFOUND"}
    \/ Includes(e.message, {"ECONNRESET", "fetch failed"})

\* a backoff that starts at two seconds
DelayFromTwo(attempt) == (2 ^ attempt) * 1000

\* line 131: Math.pow(2, attempt - 1) * 1000
Delay(attempt) == (2 ^ (attempt - 1)) * 1000

\* the text of a segment put in front of what was assembled so far
PrependText(fullTranscript, text) == text \o <<NL>> \o fullTranscript

\* line 220: fullTranscript += text + '\n'
AppendText(fullTranscript, text) == fullTranscript \o text \o <<NL>>

\* a segment whose transcription fails is left out and the loop goes on
TranscribeDoneSkipping(j, outcomes, texts) ==
    /\ ~crashed
    /\ job[j].pc = "transcribe"
    /\ \E o \in outcomes, text \in texts :
         LET r == [Returned(job[j], o) EXCEPT
                     !.fullTranscript = IF o = "ok" THEN AppendText(@, text) ELSE @,
                     !.i = @ + 1]
         IN  Set(j, NextSegmentCall(r))
    /\ UNCHANGED <<dirs, files, nextUuid, uncaught, crashed>>

TranscribeDone(j, outcomes, texts) ==
    /\ ~crashed
    /\ job[j].pc = "transcribe"
    /\ \E o \in outcomes, text \in texts :
         IF o = "ok"
         THEN LET r == [Returned(job[j], "ok") EXCEPT
                          !.fullTranscript = AppendText(@, text)]
              IN  IF r.streamState = "readable"
                  THEN Set(j, NextSegmentCall(
                                [r EXCEPT !.events = Append(@,
                                             StageEvent("transcribing",
                                                        EndP(r.i, Len(r.chunks)))),
                                          !.i = @ + 1]))
                  ELSE Set(j, Caught(r, EnqueueError, "emit"))
         ELSE IF IsNetworkError(ProviderError(o)) /\ job[j].attempt < MaxRetries
              THEN Set(j, [Returned(job[j], o) EXCEPT
                             !.pc = "backoff",
                             !.waits = Append(@, Delay(job[j].attempt))])
              ELSE Set(j, Caught(Returned(job[j], o), ProviderError(o), "transcribe"))
    /\ UNCHANGED <<dirs, files, nextUuid, uncaught, crashed>>

\* lines 133-134 and 112-115: the wait is over, the next attempt is made
BackoffDone(j) ==
    /\ ~crashed
    /\ job[j].pc = "backoff"
    /\ Set(j, [Calling(job[j], "transcribe", job[j].i, "") EXCEPT
                 !.attempt = @ + 1, !.pc = "transcribe"])
    /\ UNCHANGED <<dirs, files, nextUuid, uncaught, crashed>>

(***************************************************************************)
(* summarizeTranscript returns (lines 401-407, 434-439) and POST sends the *)
(* done event and closes the stream (lines 525-527).                       *)
(***************************************************************************)
\* the handler sending done without clearInterval and controller.close()
FinishKeepsTimer(r, content) ==
    LET summary == IF content = <<>> THEN <<"generation failed">> ELSE content
        r1 == [r EXCEPT !.summary = summary]
    IN  Sent(r1, <<DoneEvent(Payload(r1, summary))>>,
             [Calling(r1, "rm", -1, "") EXCEPT !.pc = "cleanup"])

Finish(r, content) ==
    LET summary == IF content = <<>> THEN <<"generation failed">> ELSE content
        r1 == [r EXCEPT !.keepAlive = FALSE, !.summary = summary]
    IN  Sent(r1, <<DoneEvent(Payload(r1, summary))>>,
             [Calling(r1, "rm", -1, "") EXCEPT
                !.streamState = "closed", !.pc = "cleanup"])

\* every failure of the primary model taken for a rate limit
IsAnyFailure(e) == e.status >= 0

\* lines 370 and 419
IsRateLimit(e) == e.status = 429 \/ e.code = "rate_limit_exceeded"

\* response.choices[0]?.message?.content of an answer
Content(r) == <<r.model, r.phase, ToString(r.k)>>

\* the fallback model called without a word to the caller
FallbackCallSilent(r, e) ==
    SumSent(r, <<>>,
            [Calling(r, "summarize", IF r.phase = "chunk" THEN r.k ELSE -1,
                     "FALLBACK") EXCEPT !.model = "FALLBACK"])

\* lines 371-375 and 423-428: the notice, then the call of the fallback model
FallbackCall(r, e) ==
    SumSent(r,
            <<NoticeEvent(IF r.phase = "direct"
                          THEN <<"primary model rate limited, switching to fallback, back in ",
                                 RetryAfter(e, "some time")>>
                          ELSE <<"rate limited, fallback model for part ",
                                 ToString(r.k + 1)>>)>>,
            [Calling(r, "summarize", IF r.phase = "chunk" THEN r.k ELSE -1,
                     "FALLBACK") EXCEPT !.model = "FALLBACK"])

(***************************************************************************)
(* summarizeTranscript, lines 362-381, 401 and 413-432: a call of the      *)
(* text-generation model returns.                                          *)
(***************************************************************************)
ModelDone(j, outcomes) ==
    /\ ~crashed
    /\ job[j].pc = "summarize"
    /\ \E o \in outcomes :
         LET r == Returned(job[j], o)
             e == ProviderError(o)
         IN  IF o = "ok"
             THEN IF r.phase = "chunk"
                  THEN Set(j, NextChunkCall(
                                [r EXCEPT !.chunkSummaries = Append(@, Content(r)),
                                          !.k = @ + 1]))
                  ELSE Set(j, Finish(r, Content(r)))
             ELSE IF r.phase # "reduce" /\ r.model = "PRIMARY" /\ IsRateLimit(e)
                  THEN Set(j, FallbackCall(r, e))
                  ELSE Set(j, SumCaught(r, e, "summarize"))
    /\ UNCHANGED <<dirs, files, nextUuid, uncaught, crashed>>

(***************************************************************************)
(* POST, lines 520-523: the callback of setInterval(onHeartbeat, 3000).    *)
(* progress is kept in tenths; Math.random() * 0.2 adds less than 0.2.     *)
(* The callback runs outside every try block: when send() throws, the      *)
(* exception is an uncaught exception of the process, which ends it unless *)
(* the host has installed a handler.                                       *)
(***************************************************************************)
\* the progress left without its cap
Uncapped(a, b) == a

Min(a, b) == IF a < b THEN a ELSE b

\* the callback runs for the tick after job[j].ticks, up to limit ticks
HeartbeatUpTo(j, increments, limit) ==
    /\ ~crashed
    /\ job[j].keepAlive
    /\ job[j].ticks < limit
    /\ \E inc \in increments, ends \in BOOLEAN :
         LET p == Min(job[j].progress + inc, ProgressCap * 10)
         IN  IF job[j].streamState = "readable"
             THEN /\ ~ends
                  /\ Set(j, [job[j] EXCEPT !.progress = p, !.ticks = @ + 1,
                                           !.events = Append(@,
                                              StageEvent("summarizing", p \div 10))])
                  /\ UNCHANGED <<uncaught, crashed>>
             ELSE /\ Set(j, [job[j] EXCEPT !.progress = p, !.ticks = @ + 1])
                  /\ uncaught' = uncaught + 1
                  /\ crashed' = ends
    /\ UNCHANGED <<dirs, files, nextUuid>>

Heartbeat(j, increments) == HeartbeatUpTo(j, increments, MaxHeartbeats)

(***************************************************************************)
(* The caller disconnects: the ReadableStream is cancelled.                *)
(***************************************************************************)
Cancel(j) ==
    /\ ~crashed
    /\ job[j].streamState = "readable"
    /\ Set(j, [job[j] EXCEPT !.streamState = "cancelled"])
    /\ UNCHANGED <<dirs, files, nextUuid, uncaught, crashed>>

(***************************************************************************)
(* POST, lines 544-554: rm(tempDir, {recursive, force}) returns.           *)
(***************************************************************************)
\* finally with its test inverted, `if (!tempDir)`: nothing is removed
CleanupSkipped(j) ==
    /\ ~crashed
    /\ job[j].pc = "cleanup"
    /\ Set(j, [Returned(job[j], "ok") EXCEPT !.pc = "finished"])
    /\ UNCHANGED <<dirs, files, nextUuid, uncaught, crashed>>

CleanupDone(j) ==
    /\ ~crashed
    /\ job[j].pc = "cleanup"
    /\ IF TempDir(j) # NoDir
       THEN /\ dirs' = dirs \ {TempDir(j)}
            /\ files' = {f \in files : f.dir # TempDir(j)}
            /\ Set(j, [Touch(Returned(job[j], "ok"), TempDir(j)) EXCEPT
                         !.pc = "finished"])
       ELSE /\ Set(j, [job[j] EXCEPT !.pc = "finished"])
            /\ UNCHANGED <<dirs, files>>
    /\ UNCHANGED <<nextUuid, uncaught, crashed>>

(***************************************************************************)
(* The behaviours of the collaborators a specification lets happen.        *)
(***************************************************************************)
\* what the speech-to-text provider returns for a segment: 7500 characters
\* without a sentence end, so that one segment's transcript is summarized
\* directly and two segments' transcript (15002 characters) is chunked
SegmentText == <<Run("a", 7500)>>

\* probed durations: the threshold itself, and one second into each
\* further window
Durations == {CHUNK_SIZE} \cup {(n - 1) * CHUNK_SIZE + 1 : n \in 2 .. MaxSegments}

Env ==
    [requests |-> Requests,
     mkdir |-> {"ok", "fail"},
     resolve |-> {"ok", "timeout", "fail"},
     urls |-> {".m4a"},
     connect |-> {"ok", "timeout", "fail"},
     transfer |-> {"close", "writer_error", "source_error"},
     rename |-> {"ok", "fail"},
     probe |-> {"ok", "fail"},
     durations |-> Durations,
     split |-> {"ok", "fail"},
     transcribe |-> {"ok", "network", "auth", "bad_request"},
     texts |-> {SegmentText},
     model |-> {"ok", "rate_limit", "auth", "bad_request"},
     increments |-> {1}]

\* a step of the handler of job j
JobStep(j, E) ==
    \/ StartJob(j, E.requests)
    \/ MkdirDone(j, E.mkdir)
    \/ FlushDone(j)
    \/ ResolveDone(j, E.resolve, E.urls)
    \/ ConnectDone(j, E.connect)
    \/ TransferDone(j, E.transfer)
    \/ RenameDone(j, E.rename)
    \/ ProbeDone(j, E.probe, E.durations)
    \/ SplitDone(j, E.split)
    \/ ReaddirDone(j)
    \/ TranscribeDone(j, E.transcribe, E.texts)
    \/ BackoffDone(j)
    \/ ModelDone(j, E.model)
    \/ CleanupDone(j)

Next ==
    \/ JobStep(1, Env)
    \/ Heartbeat(1, Env.increments)
    \/ Cancel(1)

Spec == Init /\ [][Next]_vars

(***************************************************************************)
(* The handler's continuations run when the operation they await settles;  *)
(* Node runs a ready continuation, so a handler step that stays enabled is *)
(* taken.  Nothing obliges the caller to disconnect or a timer to tick     *)
(* before the job is over.                                                 *)
(***************************************************************************)
FairSpec == Spec /\ WF_vars(JobStep(1, Env))

\* the same for the continuation of rm alone: all that the removal of the
\* directory needs once the handler is in finally
FairCleanup == Spec /\ WF_vars(CleanupDone(1))

(***************************************************************************)
(* Vocabulary of the properties.                                           *)
(***************************************************************************)
Stages(j) == [n \in 1 .. Len(job[j].events) |-> job[j].events[n].stage]

Range(f) == {f[x] : x \in DOMAIN f}

StageOrder == <<"parsing", "downloading", "transcribing", "summarizing", "done">>

Rank(stage) == CHOOSE n \in 1 .. Len(StageOrder) : StageOrder[n] = stage

IsTerminal(stage) == stage \in {"done", "error"}

CountOf(stage, j) == Cardinality({n \in 1 .. Len(job[j].events) :
                                   job[j].events[n].stage = stage})

\* the stream of job j carries a terminal event
TerminalEmitted(j) == \E n \in 1 .. Len(job[j].events) : IsTerminal(job[j].events[n].stage)

\* an operation op (for segment or chunk k) of job j has ended well
Succeeded(j, op, k) ==
    \E n \in 1 .. Len(job[j].calls) :
      /\ job[j].calls[n].op = op
      /\ job[j].calls[n].k = k
      /\ job[j].calls[n].result = "ok"

\* every stage of job j has succeeded: resolve, download, every segment's
\* transcription (after the retries it needed) and the summarization (with
\* the fallback it needed)
StagesSucceeded(j) ==
    /\ \A op \in {"mkdir", "resolve", "download", "transfer", "rename", "probe"} :
         Succeeded(j, op, -1)
    /\ job[j].duration > CHUNK_SIZE =>
         Succeeded(j, "split", -1) /\ Succeeded(j, "readdir", -1)
    /\ Len(job[j].chunks) = SegmentCount(IF job[j].duration = 0 THEN 1
                                         ELSE job[j].duration)
    /\ \A k \in 0 .. Len(job[j].chunks) - 1 : Succeeded(j, "transcribe", k)
    /\ \A k \in 0 .. Len(job[j].textChunks) - 1 : Succeeded(j, "summarize", k)
    /\ Succeeded(j, "summarize", -1)

\* the failures of a stage, as the catch block of POST labels them
StageFailures == {"mkdir", "resolve", "download", "rename", "probe", "split",
                  "transcribe", "summarize"}

LastEvent(j) == job[j].events[Len(job[j].events)]

(***************************************************************************)
(* C1.  In every stream the stages of the events never go backwards in the *)
(* order parsing < downloading < transcribing < summarizing < done and     *)
(* never skip a stage on the way to done; an error event may follow any    *)
(* stage; done and error are terminal: no event follows them, the stream   *)
(* is closed with them.                                                    *)
(***************************************************************************)
C1_StagesInOrder ==
    \A j \in Jobs :
      LET st == Stages(j)
      IN  /\ st # <<>> => st[1] \in {"parsing", "error"}
          /\ \A n \in 1 .. Len(st) - 1 :
               /\ ~IsTerminal(st[n])
               /\ st[n + 1] # "error" => Rank(st[n + 1]) - Rank(st[n]) \in {0, 1}
          /\ (st # <<>> /\ IsTerminal(st[Len(st)])) =>
               job[j].streamState = "closed"

\* an error event that follows summarizing events, after every earlier stage
C1_Witness ==
    \E j \in Jobs :
      /\ job[j].events # <<>>
      /\ LastEvent(j).stage = "error"
      /\ {"parsing", "downloading", "transcribing", "summarizing"} \subseteq Range(Stages(j))

(***************************************************************************)
(* C2.  When the resolver, the download, every segment's transcription and *)
(* the summarization have succeeded (and the caller is still connected),   *)
(* the stream holds, in this order, at least one parsing, one downloading, *)
(* one transcribing and one summarizing event and exactly one done event,  *)
(* which is the last event before the stream is closed.                    *)
(***************************************************************************)
C2_SuccessfulStream ==
    \A j \in Jobs :
      (StagesSucceeded(j) /\ job[j].streamState # "cancelled") =>
        LET st == Stages(j)
        IN  /\ \A n \in 1 .. Len(st) - 1 :
                 st[n] # "error" /\ st[n + 1] # "error" /\ Rank(st[n]) <= Rank(st[n + 1])
            /\ Range(st) = Range(StageOrder)
            /\ CountOf("done", j) = 1
            /\ st[Len(st)] = "done"
            /\ job[j].streamState = "closed"

\* a successful job of several segments whose timer ticked while it summarized
C2_Witness ==
    \E j \in Jobs :
      /\ StagesSucceeded(j)
      /\ job[j].streamState = "closed"
      /\ job[j].ticks > 0
      /\ Len(job[j].chunks) > 1

(***************************************************************************)
(* C3.  A stream holds a done event only if every stage of the job has     *)
(* succeeded, and no stream holds both a done and an error event.          *)
(***************************************************************************)
C3_DoneOnlyAfterSuccess ==
    \A j \in Jobs :
      /\ "done" \in Range(Stages(j)) =>
            StagesSucceeded(j) /\ job[j].failure = "none"
      /\ ~({"done", "error"} \subseteq Range(Stages(j)))

\* done after a transcription attempt that failed and was retried and a
\* summarization that fell back to the second model
C3_Witness ==
    \E j \in Jobs :
      /\ "done" \in Range(Stages(j))
      /\ \E n \in 1 .. Len(job[j].calls) :
           job[j].calls[n].op = "transcribe" /\ job[j].calls[n].result = "network"
      /\ \E n \in 1 .. Len(job[j].calls) :
           job[j].calls[n].op = "summarize" /\ job[j].calls[n].result = "rate_limit"

(***************************************************************************)
(* C4.  For every failure of a stage of a started job (mkdir, resolve,     *)
(* download, rename, probe, split, transcription, summarization) whose     *)
(* caller is still connected, the stream holds exactly one error event,    *)
(* with a non-empty message, as its last event, and is closed.  The catch  *)
(* block sends the event in the step in which the failure reaches it, so   *)
(* this is a property of every state after the failure.                    *)
(***************************************************************************)
C4_FailureYieldsOneErrorEvent ==
    \A j \in Jobs :
      (job[j].failure \in StageFailures /\ job[j].streamState # "cancelled") =>
        /\ CountOf("error", j) = 1
        /\ LastEvent(j).stage = "error"
        /\ MessageLen(LastEvent(j).error) > 0
        /\ job[j].streamState = "closed"

(***************************************************************************)
(* C5.  Every started job whose caller stays connected eventually emits a  *)
(* terminal event and closes its stream, whatever the collaborators do.    *)
(***************************************************************************)
C5_EveryJobTerminates ==
    \A j \in Jobs :
      (job[j].pc = "mkdir") ~>
        \/ TerminalEmitted(j) /\ job[j].streamState = "closed"
        \/ job[j].streamState = "cancelled"
        \/ crashed

Leaving(j) ==
    /\ job[j].pc \in {"cleanup", "finished"}
    /\ ~(job[j].pc = "finished" /\ TempDir(j) \notin dirs)

SharedEnv ==
    [requests |-> {Request("json", TRUE, "episode"), Request("json", TRUE, "foreign")},
     mkdir |-> {"ok", "fail"},
     resolve |-> {"ok"},
     urls |-> {".m4a"},
     connect |-> {"ok"},
     transfer |-> {"close"},
     rename |-> {"ok"},
     probe |-> {"ok"},
     durations |-> {CHUNK_SIZE + 1},
     split |-> {"ok"},
     transcribe |-> {"ok"},
     texts |-> {<<Run("a", 1)>>},
     model |-> {"ok"},
     increments |-> {0}]

NextMulti ==
    \E j \in Jobs :
      \/ StartJob(j, SharedEnv.requests)
      \/ MkdirDone(j, SharedEnv.mkdir)
      \/ FlushDone(j)
      \/ ResolveDone(j, SharedEnv.resolve, SharedEnv.urls)
      \/ ConnectDone(j, SharedEnv.connect)
      \/ TransferDone(j, SharedEnv.transfer)
      \/ RenameDone(j, SharedEnv.rename)
      \/ ProbeDone(j, SharedEnv.probe, SharedEnv.durations)
      \/ SplitDone(j, SharedEnv.split)
      \/ ReaddirDone(j)
      \/ TranscribeDone(j, SharedEnv.transcribe, SharedEnv.texts)
      \/ ModelDone(j, SharedEnv.model)
      \/ CleanupDone(j)
      \/ Cancel(j)

SpecMulti == Init /\ [][NextMulti]_vars

\* job j has started and its handler has not returned
InFlight(j) == job[j].pc \notin {"idle", "responded", "finished"}

(***************************************************************************)
(* C10.  With several jobs in flight, each job has exactly one transient   *)
(* directory, the directories of distinct jobs are distinct, and no job    *)
(* writes into, lists or removes the directory of another: a directory a   *)
(* job has made exists until that job removes it.                          *)
(***************************************************************************)
C10_JobsKeepToTheirOwnDirectory ==
    \A j \in Jobs :
      /\ InFlight(j) => job[j].tempDir # NoDir /\ job[j].mkdirs <= 1
      /\ job[j].touched \subseteq {TempDir(j)}
      /\ (job[j].mkdirs = 1 /\ InFlight(j)) => TempDir(j) \in dirs
      /\ \A k \in Jobs \ {j} :
           job[j].tempDir # NoDir =>
             TempDir(k) # TempDir(j) /\ TempDir(j) \notin job[k].touched

\* two jobs transcribing at the same time, each in its directory
C10_Witness ==
    \E j, k \in Jobs :
      /\ j # k
      /\ job[j].pc = "transcribe" /\ job[k].pc = "transcribe"
      /\ {TempDir(j), TempDir(k)} \subseteq dirs

(***************************************************************************)
(* One job on long audio.  Every collaborator answers well, so that the    *)
(* whole loop of transcribeLargeAudio runs for each number of segments up  *)
(* to MaxChunks, and once for MaxFiles segments, the first number of files *)
(* whose last index no longer fits the three digits of %03d next to an     *)
(* index that does.  The text returned for a segment names the segment.    *)
(***************************************************************************)
MaxChunks == 14

MaxFiles == 1001

LongDurations ==
    {CHUNK_SIZE} \cup {(n - 1) * CHUNK_SIZE + 1 : n \in (2 .. MaxChunks) \cup {MaxFiles}}

LongEnv ==
    [requests |-> {Request("json", TRUE, "episode")},
     mkdir |-> {"ok"},
     resolve |-> {"ok"},
     urls |-> {".m4a"},
     connect |-> {"ok"},
     transfer |-> {"close"},
     rename |-> {"ok"},
     probe |-> {"ok"},
     durations |-> LongDurations,
     split |-> {"ok"},
     transcribe |-> {"ok"},
     texts |-> {},
     model |-> {"ok"},
     increments |-> {1}]

\* the transcription of segment i
TextOf(i) == <<Run(ToString(i), 1)>>

NextLong ==
    \/ StartJob(1, LongEnv.requests)
    \/ MkdirDone(1, LongEnv.mkdir)
    \/ FlushDone(1)
    \/ ResolveDone(1, LongEnv.resolve, LongEnv.urls)
    \/ ConnectDone(1, LongEnv.connect)
    \/ TransferDone(1, LongEnv.transfer)
    \/ RenameDone(1, LongEnv.rename)
    \/ ProbeDone(1, LongEnv.probe, LongEnv.durations)
    \/ SplitDone(1, LongEnv.split)
    \/ ReaddirDone(1)
    \/ TranscribeDone(1, LongEnv.transcribe, {TextOf(job[1].i)})
    \/ ModelDone(1, LongEnv.model)
    \/ Heartbeat(1, LongEnv.increments)
    \/ CleanupDone(1)

SpecLong == Init /\ [][NextLong]_vars


\* the events of job j that carry a progress value
HasProgress(j, n) == job[j].events[n].progress # NoProgress

(***************************************************************************)
(* C11.  Within the transcribing stage and within the summarizing stage    *)
(* the progress values never decrease from one event to a later one, for   *)
(* every number of segments (the start and the completion report of each   *)
(* segment included) and every number of heartbeats.                       *)
(***************************************************************************)
C11_ProgressNeverDecreases ==
    \A j \in Jobs :
      \A n \in 1 .. Len(job[j].events) :
        \A m \in 1 .. n - 1 :
          ( /\ job[j].events[n].stage \in {"transcribing", "summarizing"}
            /\ job[j].events[m].stage = job[j].events[n].stage
            /\ HasProgress(j, m)
            /\ HasProgress(j, n) )
          => job[j].events[m].progress <= job[j].events[n].progress


\* the transcribing events of job j, in the order sent: the one of POST
\* (line 500), then for each segment its start report and its completion
\* report (lines 213 and 224)
TranscribingEvents(j) ==
    SelectSeq(job[j].events, LAMBDA e : e.stage = "transcribing")

\* the number of segments of job j whose completion has been reported
Completed(j) == (Len(TranscribingEvents(j)) - 1) \div 2

\* the progress reported at the completion of segment i (0-based)
CompletionOf(j, i) == TranscribingEvents(j)[2 * i + 3].progress

(***************************************************************************)
(* C12.  For every number of segments the progress reported at the         *)
(* completion of a segment is at least the one reported at the completion  *)
(* of the segment before it, and every progress value reported during      *)
(* transcription, at a start or at a completion, lies within [30, 85].     *)
(***************************************************************************)
C12_CompletionsMonotoneWithinBand ==
    \A j \in Jobs :
      LET t == TranscribingEvents(j)
      IN  /\ \A i \in 1 .. Completed(j) - 1 :
               t[2 * i + 1].progress <= t[2 * i + 3].progress
          /\ \A n \in 1 .. Len(t) : t[n].progress >= 30 /\ t[n].progress <= 85

\* the longest audio of the bounded range has had all its segments reported
C12_Witness ==
    \E j \in Jobs :
      /\ Len(job[j].chunks) = MaxChunks
      /\ Completed(j) = MaxChunks
      /\ CompletionOf(j, 0) < CompletionOf(j, MaxChunks - 1)


\* the places in the call history of job j of the calls for operation op
CallsOf(j, op) == {n \in 1 .. Len(job[j].calls) : job[j].calls[n].op = op}

\* the call at place m of job j's history has returned well for segment k
ReturnedOk(j, m, k) ==
    /\ job[j].calls[m].op = "transcribe"
    /\ job[j].calls[m].k = k
    /\ job[j].calls[m].result = "ok"

(***************************************************************************)
(* C13.  Segments are transcribed one at a time in index order: at most    *)
(* one call is outstanding (only the last call made can be pending), the   *)
(* first transcription call is for segment 0, a transcription call is      *)
(* followed by another attempt for the same segment after a failure or by  *)
(* the call for the next segment after it has returned its text, and the   *)
(* first summarization call follows the return of the last segment's call. *)
(***************************************************************************)
C13_SegmentsInOrderOneAtATime ==
    \A j \in Jobs :
      \A n \in 1 .. Len(job[j].calls) :
        LET c == job[j].calls[n]
            before == job[j].calls[n - 1]
        IN  /\ n < Len(job[j].calls) => c.result # "pending"
            /\ c.op = "transcribe" =>
                 IF n > 1 /\ before.op = "transcribe"
                 THEN \/ c.k = before.k /\ before.result \notin {"ok", "pending"}
                      \/ c.k = before.k + 1 /\ before.result = "ok"
                 ELSE c.k = 0
            /\ (c.op = "summarize" /\ n > 1 /\ before.op # "summarize") =>
                 ReturnedOk(j, n - 1, Len(job[j].chunks) - 1)

\* every segment of a split audio has been transcribed, one of them at a
\* second attempt, and the summarization has been asked for
C13_Witness ==
    \E j \in Jobs :
      /\ Len(job[j].chunks) = MaxSegments
      /\ CallsOf(j, "summarize") # {}
      /\ job[j].waits # <<>>


\* the number of segments of job j whose transcription has returned
Transcribed(j) ==
    Cardinality({n \in CallsOf(j, "transcribe") : job[j].calls[n].result = "ok"})

\* the texts of segments 0 .. count - 1 in index order, a newline after
\* each of them
Terminated(count) ==
    [n \in 1 .. 2 * count |-> IF n % 2 = 1 THEN TextOf((n - 1) \div 2)[1] ELSE NL]

\* the texts of segments 0 .. count - 1 in index order, a newline between
\* one and the next
Separated(count) ==
    [n \in 1 .. 2 * count - 1 |-> IF n % 2 = 1 THEN TextOf((n - 1) \div 2)[1] ELSE NL]

\* the transcripts carried by the done events of job j
DoneTranscripts(j) ==
    {job[j].events[n].data[1].transcript :
       n \in {x \in 1 .. Len(job[j].events) : job[j].events[x].stage = "done"}}

\* every segment of job j has been transcribed: the transcript is complete
\* and is passed to summarizeTranscript
TranscriptComplete(j) ==
    job[j].chunks # <<>> /\ Transcribed(j) = Len(job[j].chunks)

(***************************************************************************)
(* C14.  The assembled transcript is the texts returned for segments       *)
(* 0 .. N - 1 in index order with a newline as separator, none of them     *)
(* dropped, duplicated or moved, and the done event carries the transcript *)
(* that was passed to summarization.                                       *)
(***************************************************************************)
C14_TranscriptJoinedBySeparator ==
    \A j \in Jobs :
      TranscriptComplete(j) =>
        /\ job[j].fullTranscript = Separated(Len(job[j].chunks))
        /\ DoneTranscripts(j) \subseteq {job[j].fullTranscript}

\* amended: a newline follows the text of every segment, the last included
C14_TranscriptOfTerminatedTexts ==
    \A j \in Jobs :
      /\ job[j].fullTranscript = Terminated(Transcribed(j))
      /\ TranscriptComplete(j) =>
           /\ job[j].fullTranscript = Terminated(Len(job[j].chunks))
           /\ DoneTranscripts(j) \subseteq {job[j].fullTranscript}

\* the done event of the longest audio of the bounded range
C14_Witness ==
    \E j \in Jobs :
      /\ Len(job[j].chunks) = MaxChunks
      /\ DoneTranscripts(j) = {Terminated(MaxChunks)}


\* the number of attempts made in a row for segment k of job j, the call
\* at place n being the last of them (counted up to MaxRetries + 1)
AttemptsUpTo(j, k, n) ==
    Cardinality({m \in n - MaxRetries .. n :
                   /\ m >= 1
                   /\ job[j].calls[m].op = "transcribe"
                   /\ job[j].calls[m].k = k})

\* the call at place n of job j's history is a transcription attempt that
\* failed for good: with an error that is not retried, or at the last
\* attempt allowed
FinalFailure(j, n) ==
    /\ job[j].calls[n].op = "transcribe"
    /\ job[j].calls[n].result \notin {"ok", "pending"}
    /\ \/ job[j].calls[n].result # "network"
       \/ AttemptsUpTo(j, job[j].calls[n].k, n) = MaxRetries

(***************************************************************************)
(* C15.  When the transcription of a segment fails for good the job fails: *)
(* nothing is awaited afterwards but the removal of the directory (no      *)
(* later segment is submitted, no summarization call is made), no event    *)
(* carries a transcript, there is no done event, and the stream of a       *)
(* caller who is still connected ends with the error event.                *)
(***************************************************************************)
C15_SegmentFailureIsFatal ==
    \A j \in Jobs :
      \A n \in 1 .. Len(job[j].calls) :
        FinalFailure(j, n) =>
          /\ \A m \in n + 1 .. Len(job[j].calls) : job[j].calls[m].op = "rm"
          /\ \A x \in 1 .. Len(job[j].events) :
               /\ job[j].events[x].data = <<>>
               /\ job[j].events[x].stage # "done"
          /\ ~job[j].rejected =>
               /\ LastEvent(j).stage = "error"
               /\ CountOf("error", j) = 1

\* the first of several segments has failed at its third attempt, the
\* caller has been told and the handler has returned
C15_Witness ==
    \E j \in Jobs :
      /\ Len(job[j].chunks) = MaxSegments
      /\ \E n \in 1 .. Len(job[j].calls) :
           FinalFailure(j, n) /\ job[j].calls[n].k = 0 /\ job[j].calls[n].result = "network"
      /\ LastEvent(j).stage = "error"
      /\ job[j].pc = "finished"


(***************************************************************************)
(* C16.  transcribeSingleFile makes at most 3 attempts for a segment; an   *)
(* attempt is followed by another one for the same segment only if it      *)
(* failed with a network error and fewer than 3 attempts had been made; a  *)
(* failure of another kind, and the third network failure, end the call    *)
(* with that failure at once.                                              *)
(***************************************************************************)
C16_AtMostThreeAttempts ==
    \A j \in Jobs :
      \A n \in CallsOf(j, "transcribe") :
        LET c == job[j].calls[n]
        IN  /\ AttemptsUpTo(j, c.k, n) <= MaxRetries
            /\ ( /\ n < Len(job[j].calls)
                 /\ job[j].calls[n + 1].op = "transcribe"
                 /\ job[j].calls[n + 1].k = c.k )
               => /\ c.result = "network"
                  /\ AttemptsUpTo(j, c.k, n) < MaxRetries
            /\ FinalFailure(j, n)
               => /\ job[j].failure = "transcribe"
                  /\ n < Len(job[j].calls) /\ job[j].calls[n + 1].op = "rm"

\* a segment has failed three times with a network error, after two waits
C16_Witness ==
    \E j \in Jobs :
      \E n \in CallsOf(j, "transcribe") :
        /\ AttemptsUpTo(j, job[j].calls[n].k, n) = MaxRetries
        /\ job[j].calls[n].result = "network"
        /\ Len(job[j].waits) = MaxRetries - 1
        /\ job[j].failure = "transcribe"


(***************************************************************************)
(* C17.  For every probed duration up to CHUNK_SIZE (CHUNK_SIZE included)  *)
(* the segment list is the input file alone and ffmpeg is not run; for a   *)
(* longer one the list holds the files the split has written, one for      *)
(* every CHUNK_SIZE seconds begun, the file at index n being the n-th in   *)
(* time (the one ffmpeg numbered n).                                       *)
(***************************************************************************)
C17_SegmentListMatchesDuration ==
    \A j \in Jobs :
      job[j].chunks # <<>> =>
        IF job[j].duration <= CHUNK_SIZE
        THEN /\ job[j].chunks = <<InputFile(job[j].extension)>>
             /\ CallsOf(j, "split") = {}
        ELSE /\ Len(job[j].chunks) = SegmentCount(job[j].duration)
             /\ Succeeded(j, "split", -1)
             /\ \A n \in 1 .. Len(job[j].chunks) :
                  job[j].chunks[n] = ChunkFile(n - 1, job[j].extension)


(***************************************************************************)
(* splitTranscriptIntoChunks as a function of the transcript.  The         *)
(* transcripts are the strings of at most MaxRuns runs of a letter, a      *)
(* space, a full stop or a newline, each run of 1, half the limit, the     *)
(* limit or the limit plus one characters; the function is applied with    *)
(* the limit summarizeTranscript passes (line 349).                        *)
(***************************************************************************)
MaxRuns == 3

RunLengths ==
    {1, MaxCharsPerChunk \div 2, MaxCharsPerChunk, MaxCharsPerChunk + 1}

Runs == {Run(ch, n) : ch \in {"a", " ", ".", "\n"}, n \in RunLengths}

\* a run ends where the character changes
Transcripts ==
    {t \in UNION {[1 .. len -> Runs] : len \in 0 .. MaxRuns} :
       \A x \in 1 .. Len(t) - 1 : t[x].ch # t[x + 1].ch}

InitSplit ==
    /\ \E t \in Transcripts :
         job = [j \in Jobs |-> IF j = 1 THEN [NewJob EXCEPT !.fullTranscript = t]
                               ELSE NewJob]
    /\ dirs = {}
    /\ files = {}
    /\ nextUuid = NoDir + 1
    /\ uncaught = 0
    /\ crashed = FALSE

\* line 349: const chunks = splitTranscriptIntoChunks(transcript, 8000)
SplitApplied(j) ==
    /\ job[j].pc = "idle"
    /\ Set(j, [job[j] EXCEPT
                 !.textChunks = splitTranscriptIntoChunks(job[j].fullTranscript,
                                                          MaxCharsPerChunk),
                 !.pc = "finished"])
    /\ UNCHANGED <<dirs, files, nextUuid, uncaught, crashed>>

NextSplit == SplitApplied(1)

SpecSplit == InitSplit /\ [][NextSplit]_vars

\* the function has been applied to the transcript of job j
Split(j) == job[j].pc = "finished"

\* a sentence: no sentence-ending character in it
IsSentence(s) == \A x \in 1 .. Len(s) : ~IsDelimiter(s[x].ch)

(***************************************************************************)
(* C18.  For every transcript longer than the limit, every chunk has at    *)
(* most the limit's length, except a chunk that is a single sentence (a    *)
(* run without sentence-ending character) itself longer than the limit.    *)
(***************************************************************************)
C18_ChunksWithinLimitButOneSentence ==
    \A j \in Jobs :
      (Split(j) /\ StrLen(job[j].fullTranscript) > MaxCharsPerChunk) =>
        \A c \in Range(job[j].textChunks) :
          \/ StrLen(c) <= MaxCharsPerChunk
          \/ IsSentence(c)

\* amended: the exception is a single piece of the split, which is a
\* sentence or a run of sentence-ending characters
C18_ChunksWithinLimitButOnePiece ==
    \A j \in Jobs :
      (Split(j) /\ StrLen(job[j].fullTranscript) > MaxCharsPerChunk) =>
        \A c \in Range(job[j].textChunks) :
          \/ StrLen(c) <= MaxCharsPerChunk
          \/ \E piece \in Range(Sentences(job[j].fullTranscript)) :
               StrLen(piece) > MaxCharsPerChunk /\ c = Trim(piece)

\* a transcript split into three chunks: one within the limit, one sentence
\* over it, one within the limit
C18_Witness ==
    \E j \in Jobs :
      /\ Split(j)
      /\ Len(job[j].textChunks) = 3
      /\ StrLen(job[j].textChunks[1]) <= MaxCharsPerChunk
      /\ StrLen(job[j].textChunks[2]) > MaxCharsPerChunk
      /\ IsSentence(job[j].textChunks[2])


\* the chunks put one after the other, nothing between them
RECURSIVE Concat(_)
Concat(chunks) == IF chunks = <<>> THEN <<>> ELSE Head(chunks) \o Concat(Tail(chunks))

\* the same string with every run ending where the character changes
RECURSIVE Normalize(_)
Normalize(s) ==
    IF Len(s) <= 1 THEN s
    ELSE IF s[1].ch = s[2].ch
         THEN Normalize(<<Run(s[1].ch, s[1].n + s[2].n)>> \o SubSeq(s, 3, Len(s)))
         ELSE <<s[1]>> \o Normalize(Tail(s))

\* t is the chunks in order with nothing but white space before, between
\* and after them
RECURSIVE Covers(_, _)
Covers(t, chunks) ==
    IF chunks = <<>> THEN TrimStart(t) = <<>>
    ELSE LET rest == TrimStart(t)
             c == Head(chunks)
         IN  /\ Len(rest) >= Len(c)
             /\ SubSeq(rest, 1, Len(c)) = c
             /\ Covers(SubSeq(rest, Len(c) + 1, Len(rest)), Tail(chunks))

(***************************************************************************)
(* C19.  For every transcript, the chunks concatenated in order, nothing   *)
(* inserted between them, are the transcript itself: no character is       *)
(* lost, added or moved, the newlines and the white space at the chunk     *)
(* boundaries included.                                                    *)
(***************************************************************************)
C19_ConcatenationIsTheTranscript ==
    \A j \in Jobs :
      Split(j) => Normalize(Concat(job[j].textChunks)) = job[j].fullTranscript

\* amended: a transcript within the limit is returned as it is; a longer
\* one is the chunks in order with white space alone before, between and
\* after them, and no chunk begins or ends with white space
C19_ConcatenationUpToWhiteSpace ==
    \A j \in Jobs :
      Split(j) =>
        IF StrLen(job[j].fullTranscript) <= MaxCharsPerChunk
        THEN job[j].textChunks = <<job[j].fullTranscript>>
        ELSE /\ Covers(job[j].fullTranscript, job[j].textChunks)
             /\ \A c \in Range(job[j].textChunks) : Trim(c) = c

\* two chunks with a newline lost between them
C19_Witness ==
    \E j \in Jobs :
      /\ Split(j)
      /\ Len(job[j].textChunks) = 2
      /\ StrLen(Concat(job[j].textChunks)) < StrLen(job[j].fullTranscript)
      /\ \E x \in 1 .. Len(job[j].fullTranscript) : job[j].fullTranscript[x].ch = "\n"


\* the notices of lines 371-374 and 423-426: the fallback model takes over
IsFallbackNotice(e) ==
    /\ e.stage = "summarizing"
    /\ e.progress = NoProgress
    /\ e.message # <<>>
    /\ e.message[1] \in {"primary model rate limited, switching to fallback, back in ",
                         "rate limited, fallback model for part "}

FallbackNotices(j) ==
    {x \in 1 .. Len(job[j].events) : IsFallbackNotice(job[j].events[x])}

FallbackCalls(j) ==
    {n \in CallsOf(j, "summarize") : job[j].calls[n].model = "FALLBACK"}

(***************************************************************************)
(* C20.  On every text-generation call (the direct call, the call for each *)
(* chunk and the final reduce call) a rate-limit answer of the primary     *)
(* model is followed at once by one call of the fallback model for the     *)
(* same input, announced by a notice event (the caller being connected).   *)
(***************************************************************************)
C20_RateLimitFallsBackOnEveryCall ==
    \A j \in Jobs :
      job[j].failure # "emit" =>
        /\ \A n \in CallsOf(j, "summarize") :
             ( /\ job[j].calls[n].model = "PRIMARY"
               /\ job[j].calls[n].result = "rate_limit" )
             => /\ n < Len(job[j].calls)
                /\ job[j].calls[n + 1].op = "summarize"
                /\ job[j].calls[n + 1].k = job[j].calls[n].k
                /\ job[j].calls[n + 1].model = "FALLBACK"
        /\ Cardinality(FallbackNotices(j)) = Cardinality(FallbackCalls(j))


\* the summarization calls of job j that the primary model answered with a
\* rate limit
RateLimited(j) ==
    {n \in CallsOf(j, "summarize") :
       job[j].calls[n].model = "PRIMARY" /\ job[j].calls[n].result = "rate_limit"}

\* the call at place n was rate limited and the fallback model, asked next
\* for the same input, has answered
Recovered(j, n) ==
    /\ n \in RateLimited(j)
    /\ n < Len(job[j].calls)
    /\ job[j].calls[n + 1].op = "summarize"
    /\ job[j].calls[n + 1].k = job[j].calls[n].k
    /\ job[j].calls[n + 1].model = "FALLBACK"
    /\ job[j].calls[n + 1].result = "ok"

\* summarizeTranscript has met no failure but rate limits of the primary
\* model that the fallback model made good
OnlyRecoveredRateLimits(j) ==
    /\ RateLimited(j) # {}
    /\ \A n \in CallsOf(j, "summarize") :
         job[j].calls[n].result \in {"ok", "pending"} \/ Recovered(j, n)

(***************************************************************************)
(* C21.  When the primary model answers with a rate limit and the fallback *)
(* model then answers well, summarizeTranscript does not raise: the job    *)
(* does not fail in summarization, it goes on to the done event once the   *)
(* calls are over (the caller being connected), and one fallback notice    *)
(* has been sent for each rate-limited call, never none, never two.        *)
(***************************************************************************)
C21_FallbackSuccessYieldsDone ==
    \A j \in Jobs :
      (OnlyRecoveredRateLimits(j) /\ job[j].failure # "emit") =>
        /\ job[j].failure = "none"
        /\ Cardinality(FallbackNotices(j)) = Cardinality(RateLimited(j))
        /\ job[j].pc \in {"cleanup", "finished"} =>
             /\ LastEvent(j).stage = "done"
             /\ job[j].summary # <<>>

\* the direct call was rate limited, the fallback model answered and the
\* done event carries its answer
C21_Witness ==
    \E j \in Jobs :
      /\ OnlyRecoveredRateLimits(j)
      /\ job[j].textChunks = <<>>
      /\ LastEvent(j).stage = "done"
      /\ Cardinality(FallbackNotices(j)) = 1


(***************************************************************************)
(* One job whose download and transcription go well, up to                 *)
(* summarizeTranscript, where the provider answers in every way it can:    *)
(* a rate limit is told by the status 429 or by the error code alone.      *)
(* The segments' texts make transcripts of CHUNK_THRESHOLD characters, of  *)
(* one more and of two more (two segments), and shorter ones (one).        *)
(***************************************************************************)
SumTexts == {<<Run("a", CHUNK_THRESHOLD \div 2 - 1)>>, <<Run("a", CHUNK_THRESHOLD \div 2)>>}

SumEnv ==
    [requests |-> {Request("json", TRUE, "episode")},
     mkdir |-> {"ok"},
     resolve |-> {"ok"},
     urls |-> {".m4a"},
     connect |-> {"ok"},
     transfer |-> {"close"},
     rename |-> {"ok"},
     probe |-> {"ok"},
     durations |-> Durations,
     split |-> {"ok"},
     transcribe |-> {"ok"},
     texts |-> SumTexts,
     model |-> {"ok", "rate_limit", "rate_limit_code", "rate_limit_late", "auth",
                "bad_request", "network"},
     increments |-> {1}]

NextSummarize ==
    \/ StartJob(1, SumEnv.requests)
    \/ MkdirDone(1, SumEnv.mkdir)
    \/ FlushDone(1)
    \/ ResolveDone(1, SumEnv.resolve, SumEnv.urls)
    \/ ConnectDone(1, SumEnv.connect)
    \/ TransferDone(1, SumEnv.transfer)
    \/ RenameDone(1, SumEnv.rename)
    \/ ProbeDone(1, SumEnv.probe, SumEnv.durations)
    \/ SplitDone(1, SumEnv.split)
    \/ ReaddirDone(1)
    \/ TranscribeDone(1, SumEnv.transcribe, SumEnv.texts)
    \/ ModelDone(1, SumEnv.model)
    \/ Heartbeat(1, SumEnv.increments)
    \/ CleanupDone(1)

SpecSummarize == Init /\ [][NextSummarize]_vars


\* the provider's answers that tell a rate limit: by the status 429, or by
\* the error code alone
RateLimitResults == {"rate_limit", "rate_limit_code", "rate_limit_late"}

\* the call at place n of job j and the call of the fallback model that
\* followed it for the same input were both answered with a rate limit
RateLimitedTwice(j, n) ==
    /\ n < Len(job[j].calls)
    /\ job[j].calls[n].op = "summarize"
    /\ job[j].calls[n].model = "PRIMARY"
    /\ job[j].calls[n].result \in RateLimitResults
    /\ job[j].calls[n + 1].op = "summarize"
    /\ job[j].calls[n + 1].model = "FALLBACK"
    /\ job[j].calls[n + 1].k = job[j].calls[n].k
    /\ job[j].calls[n + 1].result \in RateLimitResults

(***************************************************************************)
(* C22.  When the primary model and then the fallback model answer the     *)
(* same input with a rate limit, told by the status 429 or by the error    *)
(* code, summarizeTranscript fails with the quota-exhausted error carrying *)
(* the retry-after hint, not with the generic failure; the job sends an    *)
(* error event and never a done event (the caller being connected).        *)
(***************************************************************************)
C22_TwoRateLimitsExhaustQuota ==
    \A j \in Jobs :
      \A n \in 1 .. Len(job[j].calls) :
        (RateLimitedTwice(j, n) /\ ~job[j].rejected) =>
          /\ job[j].failure = "summarize"
          /\ CountOf("done", j) = 0
          /\ LastEvent(j).stage = "error"
          /\ LastEvent(j).error =
               <<"quota exhausted, retry after ",
                 IF job[j].calls[n + 1].result = "rate_limit_late"
                 THEN "4m1.401s" ELSE "7m12s">>


\* the calls of job j that the provider refused for the credential
AuthFailures(j) ==
    {n \in 1 .. Len(job[j].calls) :
       /\ job[j].calls[n].op \in {"transcribe", "summarize"}
       /\ job[j].calls[n].result = "auth"}

(***************************************************************************)
(* C23.  When a transcription call or a summarization call fails because   *)
(* the provider rejects the credential, the error event of the job carries *)
(* the normalized invalid-credential message, not the provider's text nor  *)
(* the text summarizeTranscript wraps it in (the caller being connected).  *)
(***************************************************************************)
C23_AuthFailureIsNormalized ==
    \A j \in Jobs :
      (AuthFailures(j) # {} /\ ~job[j].rejected) =>
        /\ LastEvent(j).stage = "error"
        /\ LastEvent(j).error = InvalidKeyMessage
        /\ CountOf("error", j) = 1

\* the credential was rejected at a summarization call, after the
\* transcription had accepted it, and the caller was told
C23_Witness ==
    \E j \in Jobs :
      /\ \E n \in AuthFailures(j) : job[j].calls[n].op = "summarize"
      /\ job[j].failure = "summarize"
      /\ LastEvent(j).error = InvalidKeyMessage


(***************************************************************************)
(* The browser's side of a request: the key dialog (ApiKeyModal.tsx) and   *)
(* the form of page.tsx, in front of a server that has no key of its own   *)
(* (process.env.GROQ_API_KEY unset) and whose collaborators answer well.   *)
(***************************************************************************)
\* the events of one response that the transport cuts across two reads
MaxCuts == 1

EnteredKeys == {Key("gsk_", "first"), Key("gsk_", "second"), Key("sk-", "other"), NoKey}

PageUrls == {"episode", "lookalike", "foreign"}

\* the page is loaded, for the first time or again: the components start
\* from their initial states and the effect of ApiKeyModal.tsx, lines 16-31,
\* runs.  Without a stored key the effect returns at line 24, before the
\* listener of lines 28-29 is registered.
Mounted(j) ==
    /\ ~crashed
    /\ job[j].pc = "idle"
    /\ ~job[j].page.loading
    /\ LET stored == job[j].page.localStorage
           fresh == [NewPage EXCEPT !.localStorage = stored,
                                    !.sent = job[j].page.sent,
                                    !.mounted = TRUE]
       IN  IF stored # NoKey
           THEN Set(j, [job[j] EXCEPT !.page = [fresh EXCEPT !.apiKey = stored,
                                                             !.listening = TRUE]])
           ELSE Set(j, [job[j] EXCEPT !.page = [fresh EXCEPT !.timer = TRUE]])
    /\ UNCHANGED <<dirs, files, nextUuid, uncaught, crashed>>

\* ApiKeyModal.tsx, line 23: the entrance timer of 500 ms fires
TimerFired(j) ==
    /\ ~crashed
    /\ job[j].page.mounted
    /\ job[j].page.timer
    /\ Set(j, [job[j] EXCEPT !.page.timer = FALSE, !.page.isOpen = TRUE,
                             !.page.dispatched = FALSE])
    /\ UNCHANGED <<dirs, files, nextUuid, uncaught, crashed>>

\* page.tsx, lines 194-200: the button dispatches open-api-key-modal; the
\* listener of ApiKeyModal.tsx, line 28, if registered, opens the dialog
OpenEventDispatched(j) ==
    /\ ~crashed
    /\ job[j].page.mounted
    /\ ~job[j].page.dispatched
    /\ Set(j, [job[j] EXCEPT !.page.dispatched = TRUE,
                             !.page.isOpen = IF job[j].page.listening THEN TRUE ELSE @])
    /\ UNCHANGED <<dirs, files, nextUuid, uncaught, crashed>>

\* ApiKeyModal.tsx, lines 33-46: the dialog's form is submitted (the form
\* is rendered only while the dialog is open, line 48)
KeySaved(j, keys) ==
    /\ ~crashed
    /\ job[j].pc = "idle"
    /\ ~job[j].page.loading
    /\ job[j].page.isOpen
    /\ \E k \in keys :
         IF k.prefix = "gsk_"
         THEN Set(j, [job[j] EXCEPT !.page.localStorage = k,
                                    !.page.apiKey = k,
                                    !.page.error = FALSE,
                                    !.page.isOpen = FALSE,
                                    !.page.dispatched = FALSE])
         ELSE Set(j, [job[j] EXCEPT !.page.error = TRUE,
                                    !.page.dispatched = FALSE])
    /\ UNCHANGED <<dirs, files, nextUuid, uncaught, crashed>>

\* page.tsx, lines 40-59: the form is submitted with a URL typed in, and
\* fetch() sends the request
Submitted(j, urls) ==
    /\ ~crashed
    /\ job[j].pc = "idle"
    /\ job[j].page.mounted
    /\ ~job[j].page.loading
    /\ \E u \in urls :
         Set(j, [job[j] EXCEPT
                   !.page.loading = TRUE,
                   !.page.stage = "parsing",
                   !.page.progress = 0,
                   !.page.errorText = <<>>,
                   !.page.message = <<>>,
                   !.page.result = <<>>,
                   !.page.sent = Append(@, [url |-> u, xApiKey |-> job[j].page.apiKey])])
    /\ UNCHANGED <<dirs, files, nextUuid, uncaught, crashed>>

\* the request the page has sent reaches POST (lines 464-465)
Received(j) ==
    /\ job[j].page.loading
    /\ LET sent == job[j].page.sent[Len(job[j].page.sent)]
       IN  StartJob(j, {Request("json", sent.xApiKey # NoKey, sent.url)})

\* page.tsx, lines 84-107: the body of the loop over the lines of a read
\* for one event that was parsed; p is the page.  An error event throws,
\* and the catch block of lines 111-116 ends the submission.
ApplyEvent(p, e) ==
    IF e.stage = "error"
    THEN [p EXCEPT !.applied = Append(@, e),
                   !.errorText = IF e.error = <<>> THEN <<"unknown error">> ELSE e.error,
                   !.stage = "error",
                   !.loading = FALSE]
    ELSE [p EXCEPT !.applied = Append(@, e),
                   !.stage = e.stage,
                   !.message = IF e.message # <<>> THEN e.message ELSE @,
                   !.progress = IF e.progress # NoProgress THEN e.progress ELSE @,
                   !.result = IF e.data # <<>> THEN e.data ELSE @]

\* the parsed events of one read taken in order, up to a throw
RECURSIVE ApplyEvents(_, _)
ApplyEvents(p, evs) ==
    IF evs = <<>> \/ ~p.loading THEN p
    ELSE ApplyEvents(ApplyEvent(p, Head(evs)), Tail(evs))

\* page.tsx, lines 76-108: reader.read() returns the bytes of the next n
\* events of the stream (send, part_001:477, frames each as
\* `data: <json> \n\n`).  The transport may have cut the last of them
\* inside its text, the rest coming with the next read: the line of its
\* beginning does not parse (line 87, continue) and the line of its rest
\* does not start with `data: ` (line 81), so the event is taken by neither
\* read.
ClientRead(j) ==
    /\ ~crashed
    /\ job[j].page.loading
    /\ job[j].response = 200
    /\ job[j].page.read < Len(job[j].events)
    /\ \E n \in 1 .. Len(job[j].events) - job[j].page.read, cut \in BOOLEAN :
         /\ cut => job[j].page.cuts < MaxCuts
         /\ LET p == job[j].page
                parsed == SubSeq(job[j].events, p.read + 1,
                                 IF cut THEN p.read + n - 1 ELSE p.read + n)
                q == [p EXCEPT !.read = @ + n,
                               !.cuts = IF cut THEN @ + 1 ELSE @]
            IN  Set(j, [job[j] EXCEPT !.page = ApplyEvents(q, parsed)])
    /\ UNCHANGED <<dirs, files, nextUuid, uncaught, crashed>>

\* page.tsx, lines 77-78 and 110: the stream is closed and read to its end
ClientClosed(j) ==
    /\ ~crashed
    /\ job[j].page.loading
    /\ job[j].response = 200
    /\ job[j].streamState = "closed"
    /\ job[j].page.read = Len(job[j].events)
    /\ Set(j, [job[j] EXCEPT !.page.loading = FALSE])
    /\ UNCHANGED <<dirs, files, nextUuid, uncaught, crashed>>

\* page.tsx, lines 60-69 and 111-116: the response is not a stream but a
\* refusal with a status
ResponseRefused(j) ==
    /\ ~crashed
    /\ job[j].page.loading
    /\ job[j].pc = "responded"
    /\ Set(j, [job[j] EXCEPT !.page.loading = FALSE,
                             !.page.stage = "error",
                             !.page.errorText = <<"refused: ", ToString(job[j].response)>>])
    /\ UNCHANGED <<dirs, files, nextUuid, uncaught, crashed>>

NextBrowser ==
    \/ Mounted(1)
    \/ TimerFired(1)
    \/ OpenEventDispatched(1)
    \/ KeySaved(1, EnteredKeys)
    \/ Submitted(1, PageUrls)
    \/ Received(1)
    \/ ClientRead(1)
    \/ ClientClosed(1)
    \/ ResponseRefused(1)
    \/ MkdirDone(1, SharedEnv.mkdir)
    \/ FlushDone(1)
    \/ ResolveDone(1, SharedEnv.resolve, SharedEnv.urls)
    \/ ConnectDone(1, SharedEnv.connect)
    \/ TransferDone(1, SharedEnv.transfer)
    \/ RenameDone(1, SharedEnv.rename)
    \/ ProbeDone(1, SharedEnv.probe, SharedEnv.durations)
    \/ SplitDone(1, SharedEnv.split)
    \/ ReaddirDone(1)
    \/ TranscribeDone(1, SharedEnv.transcribe, SharedEnv.texts)
    \/ ModelDone(1, SharedEnv.model)
    \/ CleanupDone(1)

SpecBrowser == Init /\ [][NextBrowser]_vars

(***************************************************************************)
(* C24.  The key entered in the dialog stays in the browser: it is saved   *)
(* to local storage only, and no request sent to the server carries it.    *)
(***************************************************************************)
C24_KeyStaysInBrowser ==
    \A j \in Jobs :
      \A n \in 1 .. Len(job[j].page.sent) :
        job[j].page.sent[n].xApiKey = NoKey


\* the audio download of job j has failed: at the connection, or during the
\* transfer to the local file
DownloadFailed(j) ==
    \E n \in 1 .. Len(job[j].calls) :
      /\ job[j].calls[n].op \in {"connect", "transfer"}
      /\ job[j].calls[n].result \notin {"ok", "pending"}

\* the connection of job j's download was not made within the timeout
ConnectTimedOut(j) ==
    \E n \in CallsOf(j, "connect") : job[j].calls[n].result = "timeout"

(***************************************************************************)
(* C25.  Every failure of the audio download surfaces as one of two        *)
(* errors: the fetch-timeout error when the connection is not made within  *)
(* the timeout, the generic fetch-failed error for any other transport or  *)
(* write failure, a failure of the local write stream during the transfer  *)
(* included; no other error leaves downloadAudioToStream (the caller being *)
(* connected).                                                             *)
(***************************************************************************)
C25_DownloadFailuresAreClassified ==
    \A j \in Jobs :
      (DownloadFailed(j) /\ ~job[j].rejected) =>
        /\ LastEvent(j).stage = "error"
        /\ LastEvent(j).error = IF ConnectTimedOut(j)
                                THEN DownloadTimeoutError.message
                                ELSE DownloadFailedError.message


(***************************************************************************)
(* C26.  However many files the split has written (numbered from 000, a    *)
(* thousand or more of them included), the list built by listing the       *)
(* directory and sorting the names holds them in the order of their        *)
(* numbers: the segment at index n is the file ffmpeg numbered n, the n-th *)
(* in time.                                                                *)
(***************************************************************************)
C26_SortedOrderIsNumericOrder ==
    \A j \in Jobs :
      Succeeded(j, "readdir", -1) =>
        \A n \in 1 .. Len(job[j].chunks) :
          \A k \in 1 .. Len(job[j].chunks) :
            (job[j].chunks[n] = ChunkFile(k - 1, job[j].extension)) => n = k


\* the last n waits made for job j, oldest first
LastWaits(j, n) ==
    IF Len(job[j].waits) < n THEN <<>>
    ELSE SubSeq(job[j].waits, Len(job[j].waits) - n + 1, Len(job[j].waits))

\* call n of job j is the last attempt the policy allows for its segment,
\* and it failed with a network error as the ones before it
AttemptsExhausted(j, n) ==
    /\ job[j].calls[n].result = "network"
    /\ AttemptsUpTo(j, job[j].calls[n].k, n) = MaxRetries

C28_CompletionIsShareOfFiftyFive ==
    \A j \in Jobs :
      \A i \in 0 .. Completed(j) - 1 :
        /\ CompletionOf(j, i) = 30 + ((55 * (i + 1)) \div Len(job[j].chunks))
        /\ i + 1 = Len(job[j].chunks) => CompletionOf(j, i) = 85


\* the first call of the text-generation model made for job j
FirstModelCall(j) ==
    job[j].calls[CHOOSE n \in CallsOf(j, "summarize") :
                   \A m \in CallsOf(j, "summarize") : n <= m]

\* no text-generation call of job j was answered with a rate limit
NoRateLimit(j) ==
    \A n \in CallsOf(j, "summarize") : job[j].calls[n].result \notin RateLimitResults

(***************************************************************************)
(* C29.  The transcript's length decides the path.  A transcript of at     *)
(* most 15000 characters (15000 included) is never split and is summarized *)
(* directly: its calls are direct calls, and there is exactly one of them  *)
(* when no call is answered with a rate limit.  A longer transcript is     *)
(* always split by splitTranscriptIntoChunks with the limit 8000, and its  *)
(* calls are the chunk calls, from chunk 0 on, and the reduce call.        *)
(***************************************************************************)
C29_LengthDecidesThePath ==
    \A j \in Jobs :
      CallsOf(j, "summarize") # {} =>
        IF StrLen(job[j].fullTranscript) <= 15000
        THEN /\ job[j].phase = "direct"
             /\ job[j].textChunks = <<>>
             /\ \A n \in CallsOf(j, "summarize") : job[j].calls[n].k = -1
             /\ NoRateLimit(j) => Cardinality(CallsOf(j, "summarize")) = 1
        ELSE /\ job[j].phase \in {"chunk", "reduce"}
             /\ job[j].textChunks =
                  splitTranscriptIntoChunks(job[j].fullTranscript, 8000)
             /\ FirstModelCall(j).k = 0
             /\ FirstModelCall(j).model = "PRIMARY"

\* a transcript of exactly CHUNK_THRESHOLD characters has been summarized by
\* its one direct call
C29_Witness ==
    \E j \in Jobs :
      /\ StrLen(job[j].fullTranscript) = CHUNK_THRESHOLD
      /\ job[j].phase = "direct"
      /\ Cardinality(CallsOf(j, "summarize")) = 1
      /\ Succeeded(j, "summarize", -1)
      /\ job[j].summary # <<>>


\* job j is on the chunked path
Chunked(j) == job[j].textChunks # <<>>

\* the reduce calls of job j, a job on the chunked path
ReduceCalls(j) == {n \in CallsOf(j, "summarize") : job[j].calls[n].k = -1}

\* the model whose call returned the summary of chunk k of job j
AnsweredBy(j, k) ==
    job[j].calls[CHOOSE n \in CallsOf(j, "summarize") :
                   job[j].calls[n].k = k /\ job[j].calls[n].result = "ok"].model

\* the summaries of the chunks of job j, in chunk order, as the calls
\* returned them
SummariesInOrder(j) ==
    [k \in 1 .. Len(job[j].textChunks) |->
       <<AnsweredBy(j, k - 1), "chunk", ToString(k - 1)>>]

\* a call for a chunk of job j has failed and the fallback model is not
\* called for it
FailedWithoutRecovery(j) ==
    \E n \in CallsOf(j, "summarize") :
      /\ job[j].calls[n].k >= 0
      /\ job[j].calls[n].result \notin {"ok", "pending"}
      /\ ~( /\ job[j].calls[n].model = "PRIMARY"
            /\ job[j].calls[n].result \in RateLimitResults )

(***************************************************************************)
(* C30.  On the chunked path with N chunks the calls are made one at a     *)
(* time in chunk order: only the last call can be outstanding, the first   *)
(* is for chunk 0, a chunk's summary is followed by the call for the next  *)
(* chunk, or by the reduce call after the last chunk, and a rate limit of  *)
(* the primary model by the fallback call for the same chunk.  The reduce  *)
(* call is made at most once and only when every chunk has its summary;    *)
(* its input is the N summaries joined in chunk order by the separator;    *)
(* the summary returned is the answer of the reduce call.  When a chunk    *)
(* call has failed without recovery there is no reduce call.               *)
(***************************************************************************)
C30_MapThenReduceOnce ==
    \A j \in Jobs :
      (Chunked(j) /\ CallsOf(j, "summarize") # {}) =>
        LET N == Len(job[j].textChunks)
            calls == job[j].calls
        IN  /\ \A n \in CallsOf(j, "summarize") :
                 /\ calls[n].result = "pending" => n = Len(calls)
                 /\ (n < Len(calls) /\ calls[n + 1].op = "summarize") =>
                      \/ /\ calls[n].k >= 0 /\ calls[n].result = "ok"
                         /\ calls[n].k + 1 < N
                         /\ calls[n + 1].k = calls[n].k + 1
                         /\ calls[n + 1].model = "PRIMARY"
                      \/ /\ calls[n].k = N - 1 /\ calls[n].result = "ok"
                         /\ calls[n + 1].k = -1
                         /\ calls[n + 1].model = "PRIMARY"
                      \/ /\ calls[n].k >= 0 /\ calls[n].model = "PRIMARY"
                         /\ calls[n].result \in RateLimitResults
                         /\ calls[n + 1].k = calls[n].k
                         /\ calls[n + 1].model = "FALLBACK"
            /\ FirstModelCall(j).k = 0
            /\ Cardinality(ReduceCalls(j)) <= 1
            /\ IF ReduceCalls(j) = {}
               THEN job[j].mergedContent = <<>> /\ job[j].summary = <<>>
               ELSE /\ \A k \in 0 .. N - 1 : Succeeded(j, "summarize", k)
                    /\ job[j].chunkSummaries = SummariesInOrder(j)
                    /\ job[j].mergedContent =
                         Join(SummariesInOrder(j), "\n\n---\n\n")
                    /\ job[j].summary =
                         IF Succeeded(j, "summarize", -1)
                         THEN <<"PRIMARY", "reduce", ToString(N)>>
                         ELSE <<>>
            /\ FailedWithoutRecovery(j) => ReduceCalls(j) = {}

\* two chunks, the second summarized by the fallback model after a rate
\* limit, and the reduce call has returned the summary
C30_Witness ==
    \E j \in Jobs :
      /\ Len(job[j].textChunks) = 2
      /\ Succeeded(j, "summarize", 0) /\ AnsweredBy(j, 0) = "PRIMARY"
      /\ Succeeded(j, "summarize", 1) /\ AnsweredBy(j, 1) = "FALLBACK"
      /\ Succeeded(j, "summarize", -1)
      /\ job[j].mergedContent = <<"PRIMARY", "chunk", "0", "\n\n---\n\n",
                                  "FALLBACK", "chunk", "1">>
      /\ job[j].summary # <<>>


\* the results of a text-generation call that are failures of another class
\* than the rate limit
OtherFailures == {"auth", "bad_request", "network"}

\* the failure summarizeTranscript throws for a failure e of another class
SummarizationFailed(e) == Err(<<"summarize failed: ">> \o e.message, 0, "", "")

(***************************************************************************)
(* C31.  The fallback model is called only directly after a call of the    *)
(* primary model for the same input that ended with a rate limit.  A       *)
(* failure of the primary model of any other class ends summarizeTranscript *)
(* at once with the summarization-failed error that carries the provider's *)
(* message: no further model call is made, the fallback one in particular. *)
(* No input is submitted more than twice, and at most once to each model.  *)
(***************************************************************************)
C31_FallbackOnlyAfterRateLimit ==
    \A j \in Jobs :
      LET calls == job[j].calls
      IN  \A n \in CallsOf(j, "summarize") :
            /\ calls[n].model = "FALLBACK" =>
                 /\ n > 1
                 /\ calls[n - 1].op = "summarize"
                 /\ calls[n - 1].model = "PRIMARY"
                 /\ calls[n - 1].k = calls[n].k
                 /\ calls[n - 1].result \in RateLimitResults
            /\ (calls[n].model = "PRIMARY" /\ calls[n].result \in OtherFailures) =>
                 /\ n < Len(calls) /\ calls[n + 1].op = "rm"
                 /\ \A m \in CallsOf(j, "summarize") : m <= n
                 /\ job[j].failure = "summarize"
                 /\ ~job[j].rejected =>
                      /\ LastEvent(j).stage = "error"
                      /\ LastEvent(j).error =
                           ErrorMessage(SummarizationFailed(ProviderError(calls[n].result)))
            /\ \A m \in CallsOf(j, "summarize") :
                 (m # n /\ calls[m].k = calls[n].k)
                 => calls[m].model # calls[n].model

\* the primary model has failed with a network error: summarization has
\* failed and the fallback model was never called
C31_Witness ==
    \E j \in Jobs :
      \E n \in CallsOf(j, "summarize") :
        /\ job[j].calls[n].model = "PRIMARY"
        /\ job[j].calls[n].result = "network"
        /\ job[j].failure = "summarize"
        /\ LastEvent(j).error = <<"summarize failed: ", "Connection error.">>
        /\ \A m \in CallsOf(j, "summarize") : job[j].calls[m].model = "PRIMARY"


\* the chunks that are not empty, in order
NonEmpty(chunks) == SelectSeq(chunks, LAMBDA c : c # <<>>)

\* the white space of t in front of each chunk and after the last one, t
\* being covered by the chunks, none of them empty, in order
RECURSIVE Gaps(_, _)
Gaps(t, chunks) ==
    IF chunks = <<>> THEN <<t>>
    ELSE LET rest == TrimStart(t)
             c == Head(chunks)
         IN  <<SubSeq(t, 1, Len(t) - Len(rest))>>
               \o Gaps(SubSeq(rest, Len(c) + 1, Len(rest)), Tail(chunks))

\* what the transcript holds at the boundary between chunk n and chunk
\* n + 1: the last character of the nearest chunk before it that is not
\* empty, the white space dropped from there to the nearest chunk after it
\* that is not empty, and the first character of that one
Boundary(t, chunks, n) ==
    LET filled == NonEmpty(chunks)
        p == Len(NonEmpty(SubSeq(chunks, 1, n)))
        before == IF p = 0 THEN <<>> ELSE <<filled[p][Len(filled[p])]>>
        after == IF p = Len(filled) THEN <<>> ELSE <<filled[p + 1][1]>>
    IN  before \o Gaps(t, filled)[p + 1] \o after

(***************************************************************************)
(* C32.  Every boundary between two consecutive chunks returned by         *)
(* splitTranscriptIntoChunks is at a sentence break of the transcript:     *)
(* the chunk before it ends with a sentence-ending character, or the chunk *)
(* after it begins with one, or a newline was dropped between the two.     *)
(* No boundary lies inside a run of characters without such a character,   *)
(* a run longer than the limit included.                                   *)
(***************************************************************************)
C32_BoundariesAtSentenceBreaks ==
    \A j \in Jobs :
      (Split(j) /\ Len(job[j].textChunks) >= 2) =>
        /\ Covers(job[j].fullTranscript, job[j].textChunks)
        /\ \A n \in 1 .. Len(job[j].textChunks) - 1 :
             ~IsSentence(Boundary(job[j].fullTranscript, job[j].textChunks, n))

\* a sentence longer than the limit, whole in the first of two chunks
C32_Witness ==
    \E j \in Jobs :
      /\ Split(j)
      /\ Len(job[j].textChunks) = 2
      /\ IsSentence(job[j].textChunks[1])
      /\ StrLen(job[j].textChunks[1]) > MaxCharsPerChunk
      /\ Len(job[j].fullTranscript) = MaxRuns


\* the job record r holds a terminal event
Ended(r) == \E n \in 1 .. Len(r.events) : r.events[n].stage \in {"done", "error"}

\* from r to s one heartbeat event is emitted: a summarizing event with a
\* progress value, no operation being started or ended
HeartbeatEmitted(r, s) ==
    /\ Len(s.events) = Len(r.events) + 1
    /\ s.events[Len(s.events)].stage = "summarizing"
    /\ s.events[Len(s.events)].progress # NoProgress
    /\ s.calls = r.calls

\* the timer of job j is set only while summarizeTranscript is running
TimerOnlyWhileSummarizing ==
    \A j \in Jobs : job[j].keepAlive => job[j].pc = "summarize"

\* a step emits a heartbeat event only inside summarizeTranscript, and no
\* event at all for a job whose terminal event is out
EventsOnlyWhileOutstanding ==
    \A j \in Jobs :
      /\ job'[j].events # job[j].events => ~Ended(job[j])
      /\ HeartbeatEmitted(job[j], job'[j]) =>
           /\ job[j].pc = "summarize" /\ job'[j].pc = "summarize"
           /\ job[j].calls[Len(job[j].calls)].op = "summarize"
           /\ job[j].calls[Len(job[j].calls)].result = "pending"

(***************************************************************************)
(* C33.  The timer started by summarizeTranscript is cleared on every exit *)
(* of it, return or throw, on the direct and on the chunked path: it is    *)
(* set only while summarizeTranscript runs.  A heartbeat event is emitted  *)
(* only while a summarization call is outstanding, and no event of any     *)
(* kind is emitted after the job's done or error event.                    *)
(***************************************************************************)
C33_HeartbeatOnlyWhileSummarizing ==
    [](TimerOnlyWhileSummarizing) /\ [][EventsOnlyWhileOutstanding]_vars

\* a heartbeat was emitted during the summarization, which has then ended
\* with the done event, the timer cleared
C33_Witness ==
    \E j \in Jobs :
      /\ ~job[j].keepAlive
      /\ job[j].events # <<>>
      /\ LastEvent(j).stage = "done"
      /\ \E n \in 2 .. Len(job[j].events) - 1 :
           /\ job[j].events[n - 1] = StageEvent("summarizing", 85)
           /\ job[j].events[n].stage = "summarizing"
           /\ job[j].events[n].progress # NoProgress


(***************************************************************************)
(* The probe and the split, where ffprobe answers in every way it can      *)
(* (a duration, metadata without one, an error) and ffmpeg succeeds or     *)
(* fails; every other operation succeeds.  The audio URL is any of         *)
(* AudioUrls.                                                              *)
(***************************************************************************)
ProbeEnv ==
    [requests |-> {Request("json", TRUE, "episode")},
     mkdir |-> {"ok"},
     resolve |-> {"ok"},
     urls |-> AudioUrls,
     connect |-> {"ok"},
     transfer |-> {"close"},
     rename |-> {"ok"},
     probe |-> {"ok", "no_duration", "fail"},
     durations |-> Durations,
     split |-> {"ok", "fail"},
     transcribe |-> {"ok", "bad_request"},
     texts |-> {SegmentText},
     model |-> {"ok", "bad_request"},
     increments |-> {1}]

NextProbe ==
    \/ StartJob(1, ProbeEnv.requests)
    \/ MkdirDone(1, ProbeEnv.mkdir)
    \/ FlushDone(1)
    \/ ResolveDone(1, ProbeEnv.resolve, ProbeEnv.urls)
    \/ ConnectDone(1, ProbeEnv.connect)
    \/ TransferDone(1, ProbeEnv.transfer)
    \/ RenameDone(1, ProbeEnv.rename)
    \/ ProbeDone(1, ProbeEnv.probe, ProbeEnv.durations)
    \/ SplitDone(1, ProbeEnv.split)
    \/ ReaddirDone(1)
    \/ TranscribeDone(1, ProbeEnv.transcribe, ProbeEnv.texts)
    \/ ModelDone(1, ProbeEnv.model)
    \/ Heartbeat(1, ProbeEnv.increments)
    \/ CleanupDone(1)

SpecProbe == Init /\ [][NextProbe]_vars

\* an operation op of job j has ended with a failure
Failed(j, op) ==
    \E n \in CallsOf(j, op) : job[j].calls[n].result = "fail"

(***************************************************************************)
(* C34.  When the probe of the duration fails, or the split fails, the job *)
(* ends with an error event and no transcription call and no summarization *)
(* call is ever made; and no transcription call is made for a job whose    *)
(* probe has not returned a duration.                                      *)
(***************************************************************************)
C34_NoTranscriptionWithoutDuration ==
    \A j \in Jobs :
      /\ (Failed(j, "probe") \/ Failed(j, "split")) =>
           /\ CallsOf(j, "transcribe") = {}
           /\ CallsOf(j, "summarize") = {}
           /\ job[j].failure \in {"probe", "split"}
           /\ ~job[j].rejected => LastEvent(j).stage = "error"
      /\ CallsOf(j, "transcribe") # {} => Succeeded(j, "probe", -1)


\* the suffixes of a URL path that downloadAudioToStream tells from .mp3
KnownSuffixes == {".m4a", ".mp4", ".wav"}

\* the extension the claim gives to an audio URL
ExtensionOf(audioUrl) == IF audioUrl \in KnownSuffixes THEN audioUrl ELSE ".mp3"

(***************************************************************************)
(* C35.  The extension detected for an audio URL is .m4a, .mp4 or .wav     *)
(* exactly when the URL's path ends with that suffix and .mp3 in every     *)
(* other case, an unparsable URL included.  After a successful download    *)
(* the file handed to the Segmenter is input<extension> with that          *)
(* extension, and every segment of the list carries the same extension.    *)
(***************************************************************************)
C35_ExtensionFollowsUrlPath ==
    \A j \in Jobs :
      /\ Succeeded(j, "download", -1) =>
           job[j].extension = ExtensionOf(job[j].audioUrl)
      /\ job[j].pc = "probe" =>
           /\ At(TempDir(j), FileName("input", -1, ExtensionOf(job[j].audioUrl)))
                \in files
           /\ \A f \in files : f.dir = TempDir(j) =>
                f.name = FileName("input", -1, ExtensionOf(job[j].audioUrl))
      /\ \A n \in 1 .. Len(job[j].chunks) :
           job[j].chunks[n].ext = ExtensionOf(job[j].audioUrl)

\* the audio of a URL whose path ends with .wav has been split into .wav
\* segments
C35_Witness ==
    \E j \in Jobs :
      /\ job[j].audioUrl = ".wav"
      /\ Len(job[j].chunks) >= 2
      /\ \A n \in 1 .. Len(job[j].chunks) :
           job[j].chunks[n] = FileName("chunk", n - 1, ".wav")


(***************************************************************************)
(* C36.  ApiKeyModal listens for open-api-key-modal in every state of the  *)
(* mounted component, whether or not a key was stored when it mounted and  *)
(* also after a key has been entered and the dialog closed: when the event *)
(* has been dispatched, the dialog is open.                                *)
(***************************************************************************)
C36_OpenEventOpensDialog ==
    \A j \in Jobs : job[j].page.dispatched => job[j].page.isOpen


\* the submission of job j's page has ended after a streamed response
ClientEnded(j) ==
    /\ job[j].page.sent # <<>>
    /\ ~job[j].page.loading
    /\ job[j].response = 200

(***************************************************************************)
(* C37.  However the transport cuts or merges the bytes of the server's    *)
(* events into reads, handleSubmit takes every event the server has        *)
(* emitted, in the order of emission: when the server has emitted the done *)
(* event the client ends with the result set to its payload, and when it   *)
(* has emitted an error event the client ends in stage error with that     *)
(* event's message.                                                        *)
(***************************************************************************)
C37_ClientAppliesEveryEvent ==
    \A j \in Jobs :
      ClientEnded(j) =>
        /\ job[j].page.applied = job[j].events
        /\ LastEvent(j).stage = "done" =>
             /\ job[j].page.stage = "done"
             /\ job[j].page.result = LastEvent(j).data
        /\ LastEvent(j).stage = "error" =>
             /\ job[j].page.stage = "error"
             /\ job[j].page.errorText = LastEvent(j).error


(***************************************************************************)
(* C38.  Every chunk splitTranscriptIntoChunks returns for a transcript    *)
(* that is not blank is a string that is not empty, a transcript that      *)
(* starts with newlines or white space, or holds long runs of them,        *)
(* included: the chunked path submits no empty chunk to the model.         *)
(***************************************************************************)
C38_NoEmptyChunk ==
    \A j \in Jobs :
      (Split(j) /\ Trim(job[j].fullTranscript) # <<>>) =>
        \A n \in 1 .. Len(job[j].textChunks) : StrLen(job[j].textChunks[n]) > 0


\* a provider has rejected the credential of job j
CredentialRejected(j) ==
    \E n \in 1 .. Len(job[j].calls) : job[j].calls[n].result = "auth"

(***************************************************************************)
(* C39.  The error event carries the normalized invalid-credential message *)
(* only if a provider has rejected the credential: a failure of any other  *)
(* class (resolver, download, probe, network, quota exhaustion with its    *)
(* retry-after hint, generic summarization failure) keeps its own message, *)
(* whatever that message holds.                                            *)
(***************************************************************************)
C39_InvalidKeyMessageOnlyForAuth ==
    \A j \in Jobs :
      \A n \in 1 .. Len(job[j].events) :
        (job[j].events[n].stage = "error" /\ job[j].events[n].error = InvalidKeyMessage)
          => CredentialRejected(j)


(***************************************************************************)
(* A summarization that lasts: every operation succeeds, the transcript   *)
(* is short enough for the direct call, and the timer ticks up to MaxTicks *)
(* times before the model answers, each tick adding a tenth, so that the   *)
(* progress reaches its cap.                                               *)
(***************************************************************************)
MaxTicks == 145

BeatEnv ==
    [requests |-> {Request("json", TRUE, "episode")},
     mkdir |-> {"ok"},
     resolve |-> {"ok"},
     urls |-> {".m4a"},
     connect |-> {"ok"},
     transfer |-> {"close"},
     rename |-> {"ok"},
     probe |-> {"ok"},
     durations |-> Durations,
     split |-> {"ok"},
     transcribe |-> {"ok"},
     texts |-> {<<Run("a", 1)>>},
     model |-> {"ok"},
     increments |-> {1}]

NextBeat ==
    \/ StartJob(1, BeatEnv.requests)
    \/ MkdirDone(1, BeatEnv.mkdir)
    \/ FlushDone(1)
    \/ ResolveDone(1, BeatEnv.resolve, BeatEnv.urls)
    \/ ConnectDone(1, BeatEnv.connect)
    \/ TransferDone(1, BeatEnv.transfer)
    \/ RenameDone(1, BeatEnv.rename)
    \/ ProbeDone(1, BeatEnv.probe, BeatEnv.durations)
    \/ SplitDone(1, BeatEnv.split)
    \/ ReaddirDone(1)
    \/ TranscribeDone(1, BeatEnv.transcribe, BeatEnv.texts)
    \/ ModelDone(1, BeatEnv.model)
    \/ HeartbeatUpTo(1, BeatEnv.increments, MaxTicks)
    \/ CleanupDone(1)

SpecBeat == Init /\ [][NextBeat]_vars

(***************************************************************************)
(* C40.  Every progress value a job emits is an integer of 0 .. 100; in    *)
(* the summarizing stage it stays within 85 .. 98 whatever the number of   *)
(* heartbeats, and the value 100 is carried by the done event alone.       *)
(***************************************************************************)
C40_ProgressWithinRange ==
    \A j \in Jobs :
      \A n \in 1 .. Len(job[j].events) :
        LET e == job[j].events[n]
        IN  /\ e.stage \in {"parsing", "downloading", "transcribing", "done"} =>
                 e.progress \in 0 .. 100
            /\ e.stage = "summarizing" =>
                 (e.progress = NoProgress \/ e.progress \in 85 .. 98)
            /\ e.progress = 100 <=> e.stage = "done"

\* the heartbeats have brought the progress to its cap, more of them have
\* followed, and the done event has been sent
C40_Witness ==
    \E j \in Jobs :
      /\ job[j].ticks = MaxTicks
      /\ job[j].progress = ProgressCap * 10
      /\ job[j].events # <<>>
      /\ LastEvent(j).stage = "done"
      /\ \E n \in 1 .. Len(job[j].events) :
           job[j].events[n].stage = "summarizing" /\ job[j].events[n].progress = 98

=============================================================================
